---- MODULE Spec2Model ----
(***************************************************************************)
(* Model of the ETL pipeline (etl_pipeline/pipeline.py and the modules it  *)
(* calls): one run of run(), from configuration loading to the summary,    *)
(* over one PostgreSQL connection whose statements may fail.               *)
(***************************************************************************)
EXTENDS Integers, Sequences, FiniteSets, TLC

(***************************************************************************)
(* Document values.  A value is a tagged record: k is the Python kind and  *)
(* s the text str(value) returns.                                          *)
(***************************************************************************)
Val(kind, repr) == [k |-> kind, s |-> repr]

Null == Val("null", "None")

PyTrue == Val("bool", "True")

PyFalse == Val("bool", "False")

\* The outcome of a Python call: a value, or the exception it raises.
Ok(v) == [exc |-> "none", v |-> v]

Raise(e) == [exc |-> e, v |-> Null]

\* str.strip() on the strings of the model.
Strip(s) ==
  CASE s = " 1 " -> "1"
    [] s = " Yes" -> "Yes"
    [] s = " Integer " -> "Integer"
    [] OTHER -> s

\* str.lower() on the strings of the model.
Lower(s) ==
  CASE s = "Yes" -> "yes"
    [] s = "TRUE" -> "true"
    [] s = "True" -> "true"
    [] s = "False" -> "false"
    [] s = "None" -> "none"
    [] s = " Yes" -> " yes"
    [] s = "Al" -> "al"
    [] s = " Integer " -> " integer "
    [] s = "Integer" -> "integer"
    [] s = "TEXT" -> "text"
    [] s = "Boolean" -> "boolean"
    [] s = "NO" -> "no"
    [] s = "Maybe" -> "maybe"
    [] s = "Date" -> "date"
    [] s = "Sales" -> "sales"
    [] s = "Orders" -> "orders"
    [] s = "Audit" -> "audit"
    [] s = "ETL_Audit" -> "etl_audit"
    [] OTHER -> s

\* Literals int(str) accepts, after stripping.
IntLiterals == {"0", "1", "10**400"}

\* Literals float(str) accepts, after stripping, and the float they denote.
FloatLiterals == {"0", "1", "1.5", "inf", "nan", "10**400"}

FloatOfLiteral(s) ==
  CASE s = "0" -> "0.0"
    [] s = "1" -> "1.0"
    [] s = "10**400" -> "inf"
    [] OTHER -> s

\* int(value)
py_int(v) ==
  CASE v.k = "bool" -> Ok(Val("int", IF v.s = "True" THEN "1" ELSE "0"))
    [] v.k = "int" -> Ok(v)
    [] v.k = "float" ->
         IF v.s = "inf" THEN Raise("OverflowError")
         ELSE IF v.s = "nan" THEN Raise("ValueError")
         ELSE Ok(Val("int", IF v.s = "1.5" THEN "1" ELSE IF v.s = "0.0" THEN "0" ELSE "1"))
    [] v.k = "str" ->
         IF Strip(v.s) \in IntLiterals THEN Ok(Val("int", Strip(v.s)))
         ELSE Raise("ValueError")
    [] OTHER -> Raise("TypeError")

\* float(value)
py_float(v) ==
  CASE v.k = "bool" -> Ok(Val("float", IF v.s = "True" THEN "1.0" ELSE "0.0"))
    [] v.k = "int" ->
         IF v.s = "10**400" THEN Raise("OverflowError")
         ELSE Ok(Val("float", FloatOfLiteral(v.s)))
    [] v.k = "float" -> Ok(v)
    [] v.k = "str" ->
         IF Strip(v.s) \in FloatLiterals THEN Ok(Val("float", FloatOfLiteral(Strip(v.s))))
         ELSE Raise("ValueError")
    [] OTHER -> Raise("TypeError")

\* str(value)
py_str(v) == Ok(Val("str", v.s))

\* Decimal(str(value)): the text is stripped and parsed as a decimal literal.
py_decimal(v) ==
  IF Strip(v.s) \in FloatLiterals
  THEN Ok(Val("decimal", Strip(v.s)))
  ELSE Raise("InvalidOperation")

TrueWords == {"true", "t", "yes", "y", "1"}

FalseWords == {"false", "f", "no", "n", "0"}

\* A mutant of normalize_boolean: a string outside both word lists is false.
normalize_boolean_default_false(value) ==
  CASE value.k = "bool" -> Ok(value)
    [] value.k \in {"int", "float"} ->
         Ok(IF value.s \in {"0", "0.0"} THEN PyFalse ELSE PyTrue)
    [] value.k = "str" ->
         IF Lower(Strip(value.s)) \in TrueWords THEN Ok(PyTrue) ELSE Ok(PyFalse)
    [] OTHER -> Raise("ValueError")

\* transformer.normalize_boolean
normalize_boolean(value) ==
  CASE value.k = "bool" -> Ok(value)
    [] value.k \in {"int", "float"} ->
         Ok(IF value.s \in {"0", "0.0"} THEN PyFalse ELSE PyTrue)
    [] value.k = "str" ->
         IF Lower(Strip(value.s)) \in TrueWords THEN Ok(PyTrue)
         ELSE IF Lower(Strip(value.s)) \in FalseWords THEN Ok(PyFalse)
         ELSE Raise("ValueError")
    [] OTHER -> Raise("ValueError")

\* datetime.strptime(value, date_format): the datetime parsed, or "" when
\* the text does not match the format (ValueError).
Strptime(s, fmt) ==
  CASE s = "2024-01-05" /\ fmt = "%Y-%m-%d" -> "2024-01-05T00:00:00"
    [] s = "05-01-2024" /\ fmt = "%d-%m-%Y" -> "2024-01-05T00:00:00"
    [] OTHER -> ""

\* datetime.date() / datetime.combine(date, time.min), on ISO texts.
DateOf(dt) == IF dt = "2024-01-05T00:00:00" THEN "2024-01-05" ELSE dt

MidnightOf(d) == IF d = "2024-01-05" THEN "2024-01-05T00:00:00" ELSE d

\* strftime of a date / datetime under an output format.
Strftime(iso, fmt) ==
  CASE fmt = "%Y-%m-%d" -> DateOf(iso)
    [] fmt = "%Y-%m-%dT%H:%M:%S" -> MidnightOf(iso)
    [] OTHER -> fmt

RECURSIVE FirstFormat(_, _, _)
\* The loop of parse_date/parse_datetime: the first format that parses wins.
FirstFormat(s, date_formats, i) ==
  IF i > Len(date_formats) THEN ""
  ELSE IF Strptime(s, date_formats[i]) # "" THEN Strptime(s, date_formats[i])
  ELSE FirstFormat(s, date_formats, i + 1)

\* parse_date: "" models None.
parse_date(value, date_formats) ==
  CASE value.k = "datetime" -> DateOf(value.s)
    [] value.k = "date" -> value.s
    [] value.k = "str" ->
         IF FirstFormat(value.s, date_formats, 1) = "" THEN ""
         ELSE DateOf(FirstFormat(value.s, date_formats, 1))
    [] OTHER -> ""

\* parse_datetime: "" models None.
parse_datetime(value, date_formats) ==
  CASE value.k = "datetime" -> value.s
    [] value.k = "date" -> MidnightOf(value.s)
    [] value.k = "str" -> FirstFormat(value.s, date_formats, 1)
    [] OTHER -> ""

\* type_utils.normalize_type: strip and lower-case.
normalize_type(type_value) == Lower(Strip(type_value))

\* What the try block of transform_value evaluates to: a converted value, an
\* error message (err), or an exception raised by the conversion.
Converted(v) == [exc |-> "none", v |-> v, err |-> ""]

Failed(msg) == [exc |-> "none", v |-> Null, err |-> msg]

Coerce(value, target_type, date_formats, date_output_format, datetime_output_format) ==
  LET t == normalize_type(target_type)
      lift(r) == [exc |-> r.exc, v |-> r.v, err |-> ""]
  IN CASE t \in {"text", "string", "varchar"} -> lift(py_str(value))
       [] t \in {"integer", "int", "bigint", "smallint"} -> lift(py_int(value))
       [] t \in {"float", "double", "double precision"} -> lift(py_float(value))
       [] t \in {"numeric", "decimal"} -> lift(py_decimal(value))
       [] t \in {"boolean", "bool"} -> lift(normalize_boolean(value))
       [] t = "date" ->
            IF parse_date(value, date_formats) = ""
            THEN Failed("invalid date format")
            ELSE Converted(Val("str",
                   Strftime(parse_date(value, date_formats), date_output_format)))
       [] t = "datetime" ->
            IF parse_datetime(value, date_formats) = ""
            THEN Failed("invalid datetime format")
            ELSE Converted(Val("str",
                   Strftime(parse_datetime(value, date_formats), datetime_output_format)))
       [] OTHER -> Failed("unsupported target type")

\* The exceptions the except clause of transform_value catches.
CaughtExceptions == {"ValueError", "TypeError", "InvalidOperation"}

\* transform_value: (converted, error), or an exception that is not caught.
transform_value(value, target_type, date_formats, date_output_format, datetime_output_format) ==
  IF value = Null THEN Converted(Null)
  ELSE LET r == Coerce(value, target_type, date_formats,
                       date_output_format, datetime_output_format)
       IN IF r.exc \in CaughtExceptions
          THEN Failed("invalid value for type")
          ELSE r

\* dict[key] = value
Put(d, key, value) == (key :> value) @@ d

EmptyDict == [x \in {} |-> Null]

EmptyResult ==
  [exc |-> "none", transformed |-> EmptyDict, missing_columns |-> <<>>, errors |-> <<>>]

RECURSIVE transform_loop(_, _, _, _, _, _, _)
\* The loop of transform_document over the mapping entries, in order.
transform_loop(document, mappings, df, dof, dtof, i, acc) ==
  IF i > Len(mappings) \/ acc.exc # "none" THEN acc
  ELSE LET source_attr == mappings[i].attr
           target_column == mappings[i].column
           target_type == mappings[i].type
       IN IF source_attr \notin DOMAIN document
          THEN transform_loop(document, mappings, df, dof, dtof, i + 1,
                 [acc EXCEPT !.transformed = Put(@, target_column, Null),
                             !.missing_columns = Append(@, target_column)])
          ELSE LET r == transform_value(document[source_attr], target_type, df, dof, dtof)
               IN IF r.exc # "none"
                  THEN [acc EXCEPT !.exc = r.exc]
                  ELSE IF r.err # ""
                  THEN transform_loop(document, mappings, df, dof, dtof, i + 1,
                         [acc EXCEPT !.errors = Append(@, <<source_attr, r.err>>),
                                     !.transformed = Put(@, target_column, Null)])
                  ELSE transform_loop(document, mappings, df, dof, dtof, i + 1,
                         [acc EXCEPT !.transformed = Put(@, target_column, r.v)])

\* A mutant of transform_document: an absent attribute is an error too.
transform_document_absent_is_error(document, mappings, date_formats, date_output_format, datetime_output_format) ==
  LET r == transform_loop(document, mappings, date_formats,
                          date_output_format, datetime_output_format, 1, EmptyResult)
  IN [r EXCEPT !.errors =
        @ \o [i \in 1..Len(r.missing_columns) |-> <<r.missing_columns[i], "missing">>]]

\* A mutant of transform_document: a null value is handled as an absent key.
transform_document_null_as_absent(document, mappings, date_formats, date_output_format, datetime_output_format) ==
  transform_loop([a \in {x \in DOMAIN document : document[x] # Null} |-> document[a]],
                 mappings, date_formats,
                 date_output_format, datetime_output_format, 1, EmptyResult)

\* transform_document: (transformed, missing_columns, errors); exc is the
\* exception that leaves it when a conversion raises one that is not caught.
transform_document(document, mappings, date_formats, date_output_format, datetime_output_format) ==
  transform_loop(document, mappings, date_formats,
                 date_output_format, datetime_output_format, 1, EmptyResult)


(***************************************************************************)
(* Configuration.  A table name is the sequence of its dot-separated       *)
(* parts: <<"users">> is "users", <<"Sales", "Orders">> is "Sales.Orders". *)
(***************************************************************************)
\* audit.audit_table, audit.audit_schema
AuditTableName == <<"audit", "etl_audit">>

AuditSchema == "audit"

\* audit.status_values, audit.object_status_values
StatusValues == [success |-> "SUCCESS", error |-> "ERROR", missing |-> "MISSING"]

ObjectStatusValues ==
  [new |-> "NEW", missing |-> "MISSING", already_exists |-> "ALREADY_EXISTS"]

\* audit.business_columns: logical name -> column.
BusinessColumns ==
  [ingested_at |-> "ingested_at", source_collection |-> "source_collection",
   status |-> "etl_status"]

\* runtime.date_formats, date_output_format, datetime_output_format
DateFormats == <<"%Y-%m-%d", "%d-%m-%Y">>

DateOutputFormat == "%Y-%m-%d"

DatetimeOutputFormat == "%Y-%m-%dT%H:%M:%S"

\* The mapping entries of a collection, in the order of the dict.
Mappings ==
  << [attr |-> "id", column |-> "id", type |-> " Integer "],
     [attr |-> "name", column |-> "full_name", type |-> "TEXT"],
     [attr |-> "joined", column |-> "joined_on", type |-> "date"] >>

RawJsonColumn == "raw_json"

\* audit.business_columns in the order of the dict, as the configuration
\* loader accepts it: validate_app_config requires the three logical names
\* and allows more.
BusinessColumnItems ==
  << [logical |-> "ingested_at", column |-> BusinessColumns.ingested_at],
     [logical |-> "source_collection", column |-> BusinessColumns.source_collection],
     [logical |-> "status", column |-> BusinessColumns.status] >>

\* audit.business_column_types: logical name -> SQL type.
BusinessColumnTypes ==
  [ingested_at |-> "TIMESTAMPTZ", source_collection |-> "TEXT", status |-> "TEXT"]

\* runtime.type_mappings: declared type -> SQL type.
TypeMappings == (" Integer " :> "BIGINT") @@ ("text" :> "TEXT") @@ ("Date" :> "DATE")

\* type_utils.normalize_type_mappings: the dict with its keys normalized.
normalize_type_mappings(type_mappings) ==
  [k \in {normalize_type(x) : x \in DOMAIN type_mappings} |->
     type_mappings[CHOOSE x \in DOMAIN type_mappings : normalize_type(x) = k]]

\* A column list holds a name twice.
DuplicateColumn(names) ==
  \E i \in 1..Len(names) : \E j \in 1..Len(names) : i < j /\ names[i] = names[j]

RECURSIVE add_columns(_, _)
\* The loops of build_table_columns over the pending entries, in order: the
\* ConfigError for an entry without an SQL type (lines 19-22, 29-32), then
\* _add_column (39-43) with its ConfigError for a name already in the list.
add_columns(columns, pending) ==
  IF pending = <<>> THEN Ok(columns)
  ELSE IF ~Head(pending).typed THEN Raise("ConfigError")
  ELSE IF \E i \in 1..Len(columns) : columns[i].name = Head(pending).name
  THEN Raise("ConfigError")
  ELSE add_columns(Append(columns, [name |-> Head(pending).name,
                                    type |-> Head(pending).type,
                                    not_null |-> Head(pending).not_null]),
                   Tail(pending))

\* A mutant of build_table_columns: the business columns are nullable.
build_table_columns_nullable(mappings, raw_json_column, type_mappings, business_columns, business_column_types) ==
  LET types == normalize_type_mappings(type_mappings)
      entry(name, known, type, not_null) ==
        [name |-> name, typed |-> known, type |-> type, not_null |-> not_null]
  IN add_columns(<<>>,
       [i \in 1..Len(mappings) |->
          LET t == normalize_type(mappings[i].type)
          IN entry(mappings[i].column, t \in DOMAIN types,
                   IF t \in DOMAIN types THEN types[t] ELSE "", FALSE)]
       \o <<entry(raw_json_column, TRUE, "JSONB", TRUE)>>
       \o [i \in 1..Len(business_columns) |->
            LET l == business_columns[i].logical
            IN entry(business_columns[i].column, l \in DOMAIN business_column_types,
                     IF l \in DOMAIN business_column_types
                     THEN business_column_types[l] ELSE "", FALSE)])

\* schema_manager.build_table_columns: a nullable column for every mapping
\* entry with the SQL type of its normalized declared type, the raw JSON
\* column as JSONB NOT NULL, and a NOT NULL column for every business column
\* with the type of its logical name; ConfigError for a declared type without
\* an SQL type, a business column without a type, or a name that occurs twice.
build_table_columns(mappings, raw_json_column, type_mappings, business_columns, business_column_types) ==
  LET types == normalize_type_mappings(type_mappings)
      entry(name, known, type, not_null) ==
        [name |-> name, typed |-> known, type |-> type, not_null |-> not_null]
  IN add_columns(<<>>,
       [i \in 1..Len(mappings) |->
          LET t == normalize_type(mappings[i].type)
          IN entry(mappings[i].column, t \in DOMAIN types,
                   IF t \in DOMAIN types THEN types[t] ELSE "", FALSE)]
       \o <<entry(raw_json_column, TRUE, "JSONB", TRUE)>>
       \o [i \in 1..Len(business_columns) |->
            LET l == business_columns[i].logical
            IN entry(business_columns[i].column, l \in DOMAIN business_column_types,
                     IF l \in DOMAIN business_column_types
                     THEN business_column_types[l] ELSE "", TRUE)])

ObjectIdAttribute == "id"

\* The collections of the mapping configuration, in the order of the dict.
MappedOrder == <<"users", "orders">>

\* Collection names an input batch may hold; "events" has no mapping.
Collections == {"users", "orders", "events"}

\* postgres_loader.split_table_name
split_table_name(table_name) ==
  IF Len(table_name) > 1
  THEN <<table_name[1], table_name[2]>>
  ELSE <<"public", table_name[1]>>

\* schema_utils.normalize_table_name
normalize_table_name(table_name) ==
  <<Lower(split_table_name(table_name)[1]), Lower(split_table_name(table_name)[2])>>

\* The normalized names of the model in the order sorted() gives them.
SortedNames ==
  << <<"audit", "etl_audit">>, <<"audit", "extra">>, <<"public", "archive">>,
     <<"public", "users">>, <<"sales", "orders">> >>

\* sorted(S) for a set of normalized names
Sorted(S) == SelectSeq(SortedNames, LAMBDA n : n \in S)

\* A mutant of schema_tables_no_audit: the audit table itself is kept.
schema_tables_no_audit_schema_only(schema_tables, audit_schema, audit_table) ==
  {t \in schema_tables :
     ~(audit_schema # "" /\ Lower(split_table_name(t)[1]) = Lower(audit_schema))}

\* pipeline.run lines 45-55: the schema tables outside the audit schema
\* (when one is configured) that are not the audit table.
schema_tables_no_audit(schema_tables, audit_schema, audit_table) ==
  {t \in schema_tables :
     /\ ~(audit_schema # "" /\ Lower(split_table_name(t)[1]) = Lower(audit_schema))
     /\ t # normalize_table_name(audit_table)}

\* A mutant of get_collection_mapping: a collection without an entry gets the
\* entry of users.
get_collection_mapping_fallback(mapping, collection_name) ==
  IF collection_name \in DOMAIN mapping THEN mapping[collection_name]
  ELSE mapping["users"]

\* mapping_resolver.get_collection_mapping: <<>> models None.
get_collection_mapping(mapping, collection_name) ==
  IF collection_name \in DOMAIN mapping THEN mapping[collection_name] ELSE <<>>

\* pipeline.run lines 57-59
missing_collections(mapping, input_names) == (DOMAIN mapping) \ input_names

\* pipeline.run lines 75-79
input_tables(mapping, input_names) ==
  {normalize_table_name(mapping[c]) : c \in (input_names \cap DOMAIN mapping)}

\* A mutant of missing_input_tables: the tables of the input are not taken out.
missing_input_tables_all(mapping, schema_tables, input_names, audit_schema, audit_table) ==
  schema_tables_no_audit(schema_tables, audit_schema, audit_table)

\* pipeline.run line 81
missing_input_tables(mapping, schema_tables, input_names, audit_schema, audit_table) ==
  schema_tables_no_audit(schema_tables, audit_schema, audit_table)
     \ input_tables(mapping, input_names)

RECURSIVE LastMapped(_, _, _)
\* The collection a dict comprehension over the mapping leaves for a
\* normalized table: the last one, in dict order, that targets it ("" if none).
LastMapped(mapping, table, i) ==
  IF i = 0 THEN ""
  ELSE IF MappedOrder[i] \in DOMAIN mapping
          /\ normalize_table_name(mapping[MappedOrder[i]]) = table
       THEN MappedOrder[i]
       ELSE LastMapped(mapping, table, i - 1)

\* pipeline.run lines 67-73: table_to_collection.get(table); "" models None.
table_to_collection(mapping, table) == LastMapped(mapping, table, Len(MappedOrder))

\* pipeline.run lines 67-73: table_lookup.get(table, table)
table_lookup(mapping, table) ==
  IF table_to_collection(mapping, table) = "" THEN table
  ELSE mapping[table_to_collection(mapping, table)]


(***************************************************************************)
(* Bounds of the model and the inputs of a run.                            *)
(***************************************************************************)
\* Documents per input batch.
MaxDocs == 2

\* The documents a batch may hold.
DocClean ==
  [id |-> Val("int", "1"), name |-> Val("str", "Al"), joined |-> Val("str", "2024-01-05")]

DocNameAbsent == [id |-> Val("int", "1"), joined |-> Val("str", "05-01-2024")]

DocNameNull ==
  [id |-> Val("str", " 1 "), name |-> Null, joined |-> Val("str", "2024-01-05")]

DocBadDate == [name |-> Val("str", "Al"), joined |-> Val("str", "not-a-date")]

DocInfinity ==
  [id |-> Val("float", "inf"), name |-> Val("str", "Al"), joined |-> Val("str", "2024-01-05")]

\* Input batches: collections with distinct names, each with its number of
\* documents; the documents themselves are read when the loop reaches them.
RECURSIVE TotalDocs(_)
TotalDocs(b) == IF b = <<>> THEN 0 ELSE Head(b).n + TotalDocs(Tail(b))

InputBatches(names) ==
  {b \in UNION {[1..n -> [name : names, n : 0..MaxDocs]] : n \in 0..Cardinality(names)} :
     /\ \A i, j \in 1..Len(b) : i # j => b[i].name # b[j].name
     /\ TotalDocs(b) <= MaxDocs}

InputNames(input) == {input[i].name : i \in 1..Len(input)}

\* The input file as load_input_json sees it: whether the path exists and
\* holds JSON, the kind of the top-level value, the kinds of the values of its
\* keys and the kinds of the elements of those lists.
InputFile(file, top, collections, documents) ==
  [file |-> file, top |-> top, collections |-> collections, documents |-> documents]

\* The file of the batch b.
FileOf(b) ==
  InputFile("json", "dict", IF b = <<>> THEN {} ELSE {"list"},
            IF TotalDocs(b) = 0 THEN {} ELSE {"dict"})

\* The files a run may be given for the batch b: the batch itself, a missing
\* file, a file that is not JSON, a top-level list, the batch with one more
\* collection that is a string, the batch with one more document that is a
\* number.
InputFiles(b) ==
  {FileOf(b), InputFile("absent", "none", {}, {}), InputFile("text", "none", {}, {}),
   InputFile("json", "list", {}, {}),
   [FileOf(b) EXCEPT !.collections = @ \cup {"str"}],
   [FileOf(b) EXCEPT !.collections = @ \cup {"list"}, !.documents = @ \cup {"int"}]}

\* A mutant of load_input_json: the documents are not inspected.
load_input_json_any_document(f) ==
  IF f.file = "absent" THEN Raise("InputError")
  ELSE IF f.file # "json" THEN Raise("JSONDecodeError")
  ELSE IF f.top # "dict" THEN Raise("InputError")
  ELSE IF ~(f.collections \subseteq {"list"}) THEN Raise("InputError")
  ELSE Ok(f)

\* ingestion.load_input_json: InputError for a missing file (lines 9-10), the
\* error of json.load for a file that is not JSON (line 13), InputError for a
\* top-level value that is not an object (15-16), for a collection that is
\* not a list (19-22) and for a document that is not an object (23-28).
load_input_json(f) ==
  IF f.file = "absent" THEN Raise("InputError")
  ELSE IF f.file # "json" THEN Raise("JSONDecodeError")
  ELSE IF f.top # "dict" THEN Raise("InputError")
  ELSE IF ~(f.collections \subseteq {"list"}) THEN Raise("InputError")
  ELSE IF ~(f.documents \subseteq {"dict"}) THEN Raise("InputError")
  ELSE Ok(f)

\* The tables _ensure_audit_tables provisions (pipeline.run lines 312-336).
AuditTables ==
  << AuditTableName, <<AuditSchema, "missing_attributes_report">>,
     <<AuditSchema, "missing_collections_report">> >>

AuditTableSet == {AuditTables[i] : i \in 1..Len(AuditTables)}

\* The columns of those tables: _build_audit_table_columns over
\* audit.audit_columns (lines 299-308), and the report tables (322-333).
AuditTableColumns ==
  << <<"ingested_at", "object_id", "source_collection", "object_name",
       "object_status", "missing_columns", "processing_status">>,
     <<"ingestion_date", "object_name", "missing_columns">>,
     <<"ingestion_date", "object_name", "object_status">> >>

(***************************************************************************)
(* State.                                                                  *)
(***************************************************************************)
VARIABLES
  pc,      \* the position of run()
  cfg,     \* the configuration and the input batch
  db,      \* committed database state: schemas, tables, rows
  tx,      \* the open transaction: uncommitted additions, and whether a statement failed in it
  conn,    \* the PostgresLoader's connection and cursor
  report,  \* the PipelineReport
  loc,     \* the local variables of run()
  hist,    \* history of the run (statements attempted), for the properties
  raised   \* the exception that left run(), "" if none

vars == <<pc, cfg, db, tx, conn, report, loc, hist, raised>>

EmptyTx ==
  [schemas |-> {}, tables |-> {}, columns |-> EmptyDict, rows |-> {}, audit |-> {},
   failed |-> FALSE]

\* The definition of a table the database held before the run.
DeployedColumns == <<"deployed">>

EmptyReport ==
  [missing_collections |-> {}, unmapped_collections |-> {}, missing_tables_db |-> {},
   missing_tables_input |-> {}, processed_counts |-> EmptyDict, error_counts |-> EmptyDict,
   insert_failures |-> EmptyDict, object_statuses |-> EmptyDict,
   missing_columns_by_object |-> EmptyDict, missing_columns_count |-> 0]

NoDoc == [none |-> Null]

DocLocals ==
  [document |-> NoDoc, transformed |-> EmptyDict, missing_columns |-> <<>>, errors |-> <<>>,
   business_status |-> "", processing_status |-> "", insert_failed |-> FALSE]

InitLocals ==
  [ci |-> 0, di |-> 0, mi |-> 0, queue |-> <<>>, table_exists |-> FALSE,
   table_in_schema |-> FALSE, object_status |-> "", exc |-> "", doc |-> DocLocals]

InitHist ==
  [audit_attempts |-> EmptyDict, biz_attempts |-> {}, ddl |-> {}, checked |-> {},
   missing_attempts |-> <<>>, cause |-> "", summary |-> <<>>]

\* A scenario: the mapping's target tables, the tables schema.sql declares
\* (normalized by load_schema_tables), the tables the database holds before
\* the run, the collection names and the documents the batch draws from, and
\* the column names the configuration gives.
Scenario(mapping, schema_tables, tables, names, pool) ==
  [mapping |-> mapping, schema_tables |-> schema_tables, tables |-> tables,
   names |-> names, pool |-> pool, raw_json_column |-> RawJsonColumn,
   business_columns |-> BusinessColumnItems]

\* users and orders have a table each.
MappingPlain == [users |-> <<"users">>, orders |-> <<"Sales", "Orders">>]

\* users and orders share a table.
MappingShared == [users |-> <<"users">>, orders |-> <<"public", "users">>]

\* users is loaded into a table of the audit schema.
MappingAudit == [users |-> <<"audit", "extra">>, orders |-> <<"Sales", "Orders">>]

TargetTables(mapping) == {split_table_name(mapping[c]) : c \in DOMAIN mapping}

\* Every kind of document, over one mapping and one schema source: batches
\* of documents with absent and null attributes, and batches of documents
\* whose values do not coerce.
DocumentPools ==
  {{DocClean, DocNameAbsent, DocNameNull}, {DocClean, DocBadDate, DocInfinity}}

DocumentScenarios ==
  {Scenario(MappingPlain, {<<"public", "users">>}, T, Collections, P) :
     T \in {{}, AuditTableSet \cup {<<"public", "users">>}}, P \in DocumentPools}

\* Every mapping against schema sources and databases that hold none, some
\* or all of its tables, over one kind of document.
SchemaSources ==
  {{}, {<<"public", "users">>, <<"sales", "orders">>},
   {<<"audit", "extra">>, <<"public", "archive">>}}

TableScenarios ==
  UNION {{Scenario(m, S, T, DOMAIN m, {DocClean}) :
            S \in SchemaSources, T \in {{}, TargetTables(m)}} :
         m \in {MappingPlain, MappingShared, MappingAudit}}

\* Configurations the validation of pipeline.run lines 30-32 accepts whose
\* generated columns collide (the raw JSON column is named like a mapped
\* column), or whose business columns include one without a type.
ColumnScenarios ==
  {[Scenario(MappingPlain, {}, T, DOMAIN MappingPlain, {DocClean})
      EXCEPT !.raw_json_column = c.raw, !.business_columns = c.business] :
     T \in {{}, TargetTables(MappingPlain)},
     c \in {[raw |-> "full_name", business |-> BusinessColumnItems],
            [raw |-> RawJsonColumn,
             business |-> Append(BusinessColumnItems,
                                 [logical |-> "batch", column |-> "batch_id"])]}}

Scenarios == DocumentScenarios \cup TableScenarios \cup ColumnScenarios

Init ==
  /\ pc = "start"
  /\ \E sc \in Scenarios :
     \E b \in InputBatches(sc.names) :
     \E f \in InputFiles(b) :
       /\ cfg = [mapping |-> sc.mapping, schema_tables |-> sc.schema_tables,
                 input |-> b, pool |-> sc.pool,
                 raw_json_column |-> sc.raw_json_column,
                 business_columns |-> sc.business_columns, file |-> f]
       /\ db = [schemas |-> {"public"} \cup {t[1] : t \in sc.tables},
                tables |-> sc.tables, columns |-> [t \in sc.tables |-> DeployedColumns],
                rows |-> {}, audit |-> {}]
  /\ tx = EmptyTx
  /\ conn = [connection |-> "none", cursor |-> "none"]
  /\ report = EmptyReport
  /\ loc = InitLocals
  /\ hist = InitHist
  /\ raised = ""


(***************************************************************************)
(* The database behind the connection.                                     *)
(***************************************************************************)
\* The catalog a statement of the open transaction sees.
Catalog == db.tables \cup tx.tables

\* PostgresLoader.table_exists: the catalog lookup, by schema and table.
table_exists(table_name) == split_table_name(table_name) \in Catalog

\* A statement can succeed only in a transaction no statement has failed in.
Healthy == ~tx.failed

\* A mutant of Committed: the commit drops the rows committed before.
CommittedForgetful ==
  [schemas |-> db.schemas \cup tx.schemas, tables |-> db.tables \cup tx.tables,
   columns |-> tx.columns @@ db.columns, rows |-> tx.rows, audit |-> tx.audit]

\* connection.commit(): the database after the open transaction commits (a
\* transaction a statement failed in commits nothing).
Committed ==
  IF tx.failed THEN db
  ELSE [schemas |-> db.schemas \cup tx.schemas, tables |-> db.tables \cup tx.tables,
        columns |-> tx.columns @@ db.columns,
        rows |-> db.rows \cup tx.rows, audit |-> db.audit \cup tx.audit]

\* The transaction after a statement failed in it.
FailedTx == [tx EXCEPT !.failed = TRUE]

\* The outcome of a loader method: the exception it raises ("none" if it
\* returns) and the open transaction after it.
Done(t) == [exc |-> "none", tx |-> t]

Fails(e, t) == [exc |-> e, tx |-> t]

\* PostgresLoader.create_schema: LoadError without a schema name; CREATE
\* SCHEMA IF NOT EXISTS adds the schema unless the database d or the open
\* transaction t holds it.  A statement in a failed transaction fails.
create_schema(d, t, schema_name) ==
  IF schema_name = "" THEN Fails("LoadError", t)
  ELSE IF t.failed THEN Fails("DatabaseError", t)
  ELSE Done([t EXCEPT !.schemas = @ \cup ({schema_name} \ d.schemas)])

\* A mutant of create_table: CREATE TABLE without IF NOT EXISTS, which fails
\* for a table the catalog holds.
create_table_strict(d, t, table_name, columns) ==
  IF columns = <<>> THEN Fails("LoadError", t)
  ELSE IF \/ t.failed
          \/ split_table_name(table_name)[1] \notin d.schemas \cup t.schemas
          \/ split_table_name(table_name) \in d.tables \cup t.tables
  THEN Fails("DatabaseError", [t EXCEPT !.failed = TRUE])
  ELSE Done([t EXCEPT !.tables = @ \cup {split_table_name(table_name)},
                      !.columns = Put(@, split_table_name(table_name), columns)])

\* PostgresLoader.create_table: LoadError without columns; CREATE TABLE IF
\* NOT EXISTS fails when the schema is missing, leaves a table the catalog
\* holds as it is, and adds the table with its columns otherwise.
create_table(d, t, table_name, columns) ==
  IF columns = <<>> THEN Fails("LoadError", t)
  ELSE IF t.failed \/ split_table_name(table_name)[1] \notin d.schemas \cup t.schemas
  THEN Fails("DatabaseError", [t EXCEPT !.failed = TRUE])
  ELSE IF split_table_name(table_name) \in d.tables \cup t.tables THEN Done(t)
  ELSE Done([t EXCEPT !.tables = @ \cup {split_table_name(table_name)},
                      !.columns = Put(@, split_table_name(table_name), columns)])

(***************************************************************************)
(* audit.py, reporting.py                                                  *)
(***************************************************************************)
\* audit.build_business_audit_fields merged into the row (pipeline.run 231-237)
BusinessRow(collection_name, transformed, business_status) ==
  Put(Put(Put(Put(transformed,
                  cfg.raw_json_column, Val("obj", "document")),
              BusinessColumns.ingested_at, Val("datetime", "now")),
          BusinessColumns.source_collection, Val("str", collection_name)),
      BusinessColumns.status, Val("str", business_status))

\* audit.build_audit_row
build_audit_row(object_id, source_collection, object_name, object_status, missing_columns, processing_status) ==
  [object_id |-> object_id, source_collection |-> source_collection,
   object_name |-> object_name, object_status |-> object_status,
   missing_columns |-> missing_columns, processing_status |-> processing_status]

\* defaultdict(int)[key] += 1
Inc(d, key) == IF key \in DOMAIN d THEN [d EXCEPT ![key] = @ + 1] ELSE Put(d, key, 1)

Get(d, key) == IF key \in DOMAIN d THEN d[key] ELSE 0

\* A mutant of record_document: a failed insert is counted as processed too.
record_document_no_return(r, collection_name, had_errors, insert_failed) ==
  LET r1 == IF insert_failed
            THEN [r EXCEPT !.insert_failures = Inc(@, collection_name)] ELSE r
      r2 == [r1 EXCEPT !.processed_counts = Inc(@, collection_name)]
  IN IF had_errors THEN [r2 EXCEPT !.error_counts = Inc(@, collection_name)] ELSE r2

\* PipelineReport.record_document
record_document(r, collection_name, had_errors, insert_failed) ==
  IF insert_failed
  THEN [r EXCEPT !.insert_failures = Inc(@, collection_name)]
  ELSE LET r2 == [r EXCEPT !.processed_counts = Inc(@, collection_name)]
       IN IF had_errors THEN [r2 EXCEPT !.error_counts = Inc(@, collection_name)] ELSE r2

\* PipelineReport.record_object_status
record_object_status(r, object_name, status) ==
  [r EXCEPT !.object_statuses = Put(@, object_name, status)]

\* PipelineReport.record_missing_columns
record_missing_columns(r, object_name, missing_columns) ==
  IF missing_columns = <<>> THEN r
  ELSE [r EXCEPT
          !.missing_columns_by_object =
             Put(@, object_name,
                 (IF object_name \in DOMAIN @ THEN @[object_name] ELSE {})
                   \cup {missing_columns[i] : i \in 1..Len(missing_columns)}),
          !.missing_columns_count = @ + 1]


(***************************************************************************)
(* run(): before the transactional region.                                 *)
(***************************************************************************)
\* pipeline.run lines 28-32: the configuration loads and validates, or a
\* ConfigError leaves run().
LoadConfig ==
  /\ pc = "start"
  /\ \/ /\ pc' = "load_input"
        /\ raised' = raised
     \/ /\ pc' = "raised"
        /\ raised' = "ConfigError"
  /\ UNCHANGED <<cfg, db, tx, conn, report, loc, hist>>

\* pipeline.run line 37: load_input_json returns the batch, or its exception
\* leaves run().
LoadInput ==
  /\ pc = "load_input"
  /\ IF load_input_json(cfg.file).exc = "none"
     THEN /\ pc' = "reconcile"
          /\ raised' = raised
     ELSE /\ pc' = "raised"
          /\ raised' = load_input_json(cfg.file).exc
  /\ UNCHANGED <<cfg, db, tx, conn, report, loc, hist>>

\* pipeline.run lines 39-92: load_schema_tables, then the reconciliation of
\* the mapping, the schema source and the input into the report.
Reconcile ==
  /\ pc = "reconcile"
  /\ \/ /\ pc' = "ensure_database"
        /\ raised' = raised
        /\ report' =
             [report EXCEPT
                !.missing_collections =
                   missing_collections(cfg.mapping, InputNames(cfg.input)),
                !.missing_tables_input =
                   {table_lookup(cfg.mapping, t) :
                      t \in missing_input_tables(cfg.mapping, cfg.schema_tables,
                                                 InputNames(cfg.input),
                                                 AuditSchema, AuditTableName)}]
     \/ /\ pc' = "raised"
        /\ raised' = "ConfigError"
        /\ report' = report
  /\ UNCHANGED <<cfg, db, tx, conn, loc, hist>>

\* pipeline.run line 95: ensure_database returns, or raises LoadError.
EnsureDatabase ==
  /\ pc = "ensure_database"
  /\ \/ /\ pc' = "connect"
        /\ raised' = raised
     \/ /\ pc' = "raised"
        /\ raised' = "LoadError"
  /\ UNCHANGED <<cfg, db, tx, conn, report, loc, hist>>

\* PostgresLoader.__enter__: the connection and its cursor open, or LoadError
\* when connect fails (line 28) or when the cursor cannot be obtained from
\* the open connection (lines 29-30).
Connect ==
  /\ pc = "connect"
  /\ \/ /\ pc' = "audit_schema"
        /\ conn' = [connection |-> "open", cursor |-> "open"]
        /\ raised' = raised
     \/ /\ pc' = "raised"
        /\ conn' = conn
        /\ raised' = "LoadError"
     \/ /\ pc' = "raised"
        /\ conn' = [connection |-> "open", cursor |-> "none"]
        /\ raised' = "LoadError"
  /\ UNCHANGED <<cfg, db, tx, report, loc, hist>>

(***************************************************************************)
(* run(): inside the with block.  An exception nothing catches leaves the  *)
(* block through PostgresLoader.__exit__ and run() as a LoadError: the     *)
(* report and the locals of run() are lost with it.                        *)
(***************************************************************************)
\* Exception e escapes the with block at the current position; h is the
\* history up to it.
Abort(e, h) ==
  /\ loc' = [InitLocals EXCEPT !.exc = e]
  /\ report' = EmptyReport
  /\ hist' = [h EXCEPT !.cause = pc]
  /\ pc' = "exit"

\* _ensure_audit_tables line 316: create_schema(target_schema)
AuditCreateSchema ==
  /\ pc = "audit_schema"
  /\ \/ /\ create_schema(db, tx, AuditSchema).exc = "none"
        /\ tx' = create_schema(db, tx, AuditSchema).tx
        /\ loc' = [loc EXCEPT !.mi = 1]
        /\ pc' = "audit_tables"
        /\ UNCHANGED <<report, hist>>
     \/ /\ tx' = FailedTx
        /\ Abort("DatabaseError", hist)
  /\ UNCHANGED <<cfg, db, conn, raised>>

\* _ensure_audit_tables lines 318-336: the next of the three tables, or the
\* commit after the last.
AfterAuditTable ==
  /\ loc' = [loc EXCEPT !.mi = IF @ = Len(AuditTables) THEN 0 ELSE @ + 1]
  /\ pc' = IF loc.mi = Len(AuditTables) THEN "audit_commit" ELSE "audit_tables"

\* _ensure_audit_tables lines 320, 336: create_table for the current table.
EnsuredAuditTable ==
  create_table(db, tx, AuditTables[loc.mi], AuditTableColumns[loc.mi])

\* _ensure_audit_tables lines 318-336: for the audit table and the two report
\* tables, table_exists and, when it is missing, create_table.
AuditEnsureTable ==
  /\ pc = "audit_tables"
  /\ \/ /\ Healthy
        /\ table_exists(AuditTables[loc.mi])
        /\ tx' = tx
        /\ AfterAuditTable
        /\ UNCHANGED <<report, hist>>
     \/ /\ Healthy
        /\ ~table_exists(AuditTables[loc.mi])
        /\ EnsuredAuditTable.exc = "none"
        /\ tx' = EnsuredAuditTable.tx
        /\ AfterAuditTable
        /\ UNCHANGED <<report, hist>>
     \/ /\ tx' = FailedTx
        /\ Abort("DatabaseError", hist)
  /\ UNCHANGED <<cfg, db, conn, raised>>

\* _ensure_audit_tables line 338: loader.commit()
AuditCommit ==
  /\ pc = "audit_commit"
  /\ \/ /\ db' = Committed
        /\ tx' = EmptyTx
        /\ pc' = "audit_check"
        /\ UNCHANGED <<report, loc, hist>>
     \/ /\ db' = db
        /\ tx' = FailedTx
        /\ Abort("DatabaseError", hist)
  /\ UNCHANGED <<cfg, conn, raised>>

\* pipeline.run lines 98-103: the audit table must exist; then the loop over
\* sorted(missing_input_tables) starts.
AuditCheck ==
  /\ pc = "audit_check"
  /\ \/ /\ Healthy
        /\ tx' = tx
        /\ IF table_exists(AuditTableName)
           THEN LET queue == Sorted(missing_input_tables(cfg.mapping, cfg.schema_tables,
                                                         InputNames(cfg.input),
                                                         AuditSchema, AuditTableName))
                IN /\ loc' = [loc EXCEPT !.queue = queue, !.ci = IF queue = <<>> THEN 1 ELSE 0]
                   /\ pc' = IF queue = <<>> THEN "collection" ELSE "missing_insert"
                   /\ UNCHANGED <<report, hist>>
           ELSE Abort("LoadError", hist)
     \/ /\ tx' = FailedTx
        /\ Abort("DatabaseError", hist)
  /\ UNCHANGED <<cfg, db, conn, raised>>

\* The audit row of a schema table that is missing from the input
\* (pipeline.run lines 104-116).
MissingTableAuditRow(table) ==
  [key |-> <<0, CHOOSE k \in 1..Len(SortedNames) : SortedNames[k] = table>>,
   cols |-> build_audit_row(Null,
              IF table_to_collection(cfg.mapping, table) = "" THEN Null
              ELSE Val("str", table_to_collection(cfg.mapping, table)),
              table_lookup(cfg.mapping, table), ObjectStatusValues.missing,
              <<>>, StatusValues.missing)]

\* The position after the missing-table loop handled the head of the queue.
AfterMissing ==
  /\ loc' = [loc EXCEPT !.queue = Tail(@), !.ci = IF Len(loc.queue) = 1 THEN 1 ELSE 0]
  /\ pc' = IF Len(loc.queue) = 1 THEN "collection" ELSE "missing_insert"

\* pipeline.run lines 104-118: record the status, insert the audit row.
MissingInsert ==
  /\ pc = "missing_insert"
  /\ report' = record_object_status(report, table_lookup(cfg.mapping, Head(loc.queue)),
                                    ObjectStatusValues.missing)
  /\ \/ /\ Healthy
        /\ AuditTableName \in Catalog
        /\ tx' = [tx EXCEPT !.audit = @ \cup {MissingTableAuditRow(Head(loc.queue))}]
        /\ pc' = "missing_commit"
     \/ /\ tx' = FailedTx
        /\ pc' = "missing_rollback"
  /\ hist' = [hist EXCEPT !.missing_attempts =
                 Append(@, [table |-> Head(loc.queue),
                            cols |-> MissingTableAuditRow(Head(loc.queue)).cols])]
  /\ UNCHANGED <<cfg, db, conn, loc, raised>>

\* pipeline.run line 119: loader.commit()
MissingCommit ==
  /\ pc = "missing_commit"
  /\ \/ /\ db' = Committed
        /\ tx' = EmptyTx
        /\ AfterMissing
     \/ /\ db' = db
        /\ tx' = FailedTx
        /\ pc' = "missing_rollback"
        /\ loc' = loc
  /\ UNCHANGED <<cfg, conn, report, hist, raised>>

\* A mutant of MissingRollback: the handler re-raises after the rollback.
MissingRollbackRaise ==
  /\ pc = "missing_rollback"
  /\ tx' = EmptyTx
  /\ Abort("LoadError", hist)
  /\ UNCHANGED <<cfg, db, conn, raised>>

\* pipeline.run lines 120-126: loader.rollback(), then the next table.
MissingRollback ==
  /\ pc = "missing_rollback"
  /\ \/ /\ tx' = EmptyTx
        /\ AfterMissing
        /\ UNCHANGED <<report, hist>>
     \/ /\ tx' = tx
        /\ Abort("DatabaseError", hist)
  /\ UNCHANGED <<cfg, db, conn, raised>>

(***************************************************************************)
(* run(): the loop over the input collections (lines 128-186).             *)
(***************************************************************************)
CurName == cfg.input[loc.ci].name

CurCount == cfg.input[loc.ci].n

\* pipeline.run lines 129-139: collection_config["target_table"]
CurTarget == get_collection_mapping(cfg.mapping, CurName)

CurKey == <<loc.ci, loc.di>>

\* The for loop is exhausted: the with block is left without an exception.
EndCollections ==
  /\ pc = "collection"
  /\ loc.ci > Len(cfg.input)
  /\ pc' = "exit"
  /\ UNCHANGED <<cfg, db, tx, conn, report, loc, hist, raised>>

\* pipeline.run lines 129-137: a collection without a mapping is recorded as
\* unmapped and skipped.
Unmapped ==
  /\ pc = "collection"
  /\ loc.ci <= Len(cfg.input)
  /\ get_collection_mapping(cfg.mapping, CurName) = <<>>
  /\ report' = [report EXCEPT !.unmapped_collections = @ \cup {CurName}]
  /\ loc' = [loc EXCEPT !.ci = @ + 1]
  /\ UNCHANGED <<pc, cfg, db, tx, conn, hist, raised>>

\* pipeline.run lines 147-152
object_status_of(exists, in_schema) ==
  IF exists THEN ObjectStatusValues.already_exists
  ELSE IF ~in_schema THEN ObjectStatusValues.new
  ELSE ObjectStatusValues.missing

\* A mutant of must_create: no table is auto-created.
must_create_never(exists, in_schema) == FALSE

\* pipeline.run line 156: whether the table is auto-created
must_create(exists, in_schema) == ~exists /\ ~in_schema

\* pipeline.run lines 174-188: the missing table is reported, and the loop
\* over the documents starts (an empty collection is skipped).
StartDocuments(r, exists, in_schema, status) ==
  /\ report' = IF in_schema /\ ~exists
               THEN [r EXCEPT !.missing_tables_db = @ \cup {CurTarget}]
               ELSE r
  /\ IF CurCount = 0
     THEN /\ pc' = "collection"
          /\ loc' = [loc EXCEPT !.ci = @ + 1, !.di = 0, !.table_exists = FALSE,
                                !.table_in_schema = FALSE, !.object_status = ""]
     ELSE /\ pc' = "transform"
          /\ loc' = [loc EXCEPT !.di = 1, !.table_exists = exists,
                                !.table_in_schema = in_schema,
                                !.object_status = status]

\* pipeline.run lines 139-156: table_exists, the object status, and the
\* decision to create the table.
ResolveTable ==
  /\ pc = "collection"
  /\ loc.ci <= Len(cfg.input)
  /\ get_collection_mapping(cfg.mapping, CurName) # <<>>
  /\ \/ /\ Healthy
        /\ tx' = tx
        /\ hist' = [hist EXCEPT !.checked = @ \cup {loc.ci}]
        /\ LET in_schema == normalize_table_name(CurTarget)
                              \in schema_tables_no_audit(cfg.schema_tables, AuditSchema,
                                                        AuditTableName)
               exists == table_exists(CurTarget)
               status == object_status_of(exists, in_schema)
               r == record_object_status(report, CurTarget, status)
           IN IF must_create(exists, in_schema)
              THEN /\ report' = r
                   /\ pc' = "create_schema"
                   /\ loc' = [loc EXCEPT !.object_status = status,
                                         !.table_exists = exists,
                                         !.table_in_schema = in_schema]
              ELSE StartDocuments(r, exists, in_schema, status)
     \/ /\ tx' = FailedTx
        /\ Abort("DatabaseError", [hist EXCEPT !.checked = @ \cup {loc.ci}])
  /\ UNCHANGED <<cfg, db, conn, raised>>

\* The history after a DDL statement was issued for the current collection.
WithDdl(h) == [h EXCEPT !.ddl = @ \cup {loc.ci}]

\* pipeline.run line 157: _ensure_schema creates the schema of the target.
CreateSchema ==
  /\ pc = "create_schema"
  /\ \/ /\ create_schema(db, tx, split_table_name(CurTarget)[1]).exc = "none"
        /\ tx' = create_schema(db, tx, split_table_name(CurTarget)[1]).tx
        /\ pc' = "create_table"
        /\ hist' = WithDdl(hist)
        /\ UNCHANGED <<report, loc>>
     \/ /\ tx' = FailedTx
        /\ Abort("DatabaseError", WithDdl(hist))
  /\ UNCHANGED <<cfg, db, conn, raised>>

\* pipeline.run lines 158-164: the columns of the table to create.
TableColumns ==
  build_table_columns(Mappings, cfg.raw_json_column, TypeMappings,
                      cfg.business_columns, BusinessColumnTypes)

\* pipeline.run lines 158-165: build_table_columns, whose ConfigError escapes
\* the with block, then create_table.
CreateTable ==
  /\ pc = "create_table"
  /\ \/ /\ TableColumns.exc # "none"
        /\ tx' = tx
        /\ Abort(TableColumns.exc, hist)
     \/ /\ TableColumns.exc = "none"
        /\ create_table(db, tx, CurTarget, TableColumns.v).exc = "none"
        /\ tx' = create_table(db, tx, CurTarget, TableColumns.v).tx
        /\ pc' = "create_commit"
        /\ hist' = WithDdl(hist)
        /\ UNCHANGED <<report, loc>>
     \/ /\ TableColumns.exc = "none"
        /\ tx' = FailedTx
        /\ Abort("DatabaseError", WithDdl(hist))
  /\ UNCHANGED <<cfg, db, conn, raised>>

\* pipeline.run lines 166-188: the commit of the new table; table_exists is
\* now true and the documents follow.
CreateCommit ==
  /\ pc = "create_commit"
  /\ \/ /\ db' = Committed
        /\ tx' = EmptyTx
        /\ StartDocuments(report, TRUE, loc.table_in_schema, loc.object_status)
        /\ hist' = hist
     \/ /\ db' = db
        /\ tx' = FailedTx
        /\ Abort("DatabaseError", hist)
  /\ UNCHANGED <<cfg, conn, raised>>

(***************************************************************************)
(* run(): the loop over the documents of a collection (lines 188-284).     *)
(***************************************************************************)
\* A mutant of NextDocument: the loop over the documents is left after one.
NextDocumentBreak ==
  /\ pc' = "collection"
  /\ loc' = [loc EXCEPT !.ci = @ + 1, !.di = 0, !.doc = DocLocals,
                        !.table_exists = FALSE, !.table_in_schema = FALSE,
                        !.object_status = ""]

\* The locals after the current document is done: the next document, or the
\* next collection.
NextDocument ==
  /\ pc' = IF loc.di < CurCount THEN "transform" ELSE "collection"
  /\ loc' = IF loc.di < CurCount
            THEN [loc EXCEPT !.di = @ + 1, !.doc = DocLocals]
            ELSE [loc EXCEPT !.ci = @ + 1, !.di = 0, !.doc = DocLocals,
                             !.table_exists = FALSE, !.table_in_schema = FALSE,
                             !.object_status = ""]

\* pipeline.run lines 214-219: the business status of a transformed document
business_status_of(errors) ==
  IF errors # <<>> THEN StatusValues.error ELSE StatusValues.success

\* pipeline.run lines 189-252: transform_document, the missing columns into
\* the report, the statuses; without a table the business insert is skipped.
Transform ==
  /\ pc = "transform"
  /\ \E document \in cfg.pool :
       LET t == transform_document(document, Mappings, DateFormats,
                                   DateOutputFormat, DatetimeOutputFormat)
       IN IF t.exc # "none"
          THEN Abort(t.exc, hist)
          ELSE /\ report' = record_missing_columns(report, CurTarget, t.missing_columns)
               /\ loc' = [loc EXCEPT !.doc =
                            [document |-> document, transformed |-> t.transformed,
                             missing_columns |-> t.missing_columns, errors |-> t.errors,
                             business_status |-> business_status_of(t.errors),
                             processing_status |->
                                IF loc.table_exists THEN business_status_of(t.errors)
                                ELSE StatusValues.missing,
                             insert_failed |-> ~loc.table_exists]]
               /\ pc' = IF loc.table_exists THEN "insert_business" ELSE "insert_audit"
               /\ hist' = hist
  /\ UNCHANGED <<cfg, db, tx, conn, raised>>

\* pipeline.run lines 231-239: the business row is inserted.
InsertBusiness ==
  /\ pc = "insert_business"
  /\ hist' = [hist EXCEPT !.biz_attempts = @ \cup {CurKey}]
  /\ \/ /\ Healthy
        /\ split_table_name(CurTarget) \in Catalog
        /\ tx' = [tx EXCEPT !.rows = @ \cup
                    {[table |-> CurTarget, key |-> CurKey,
                      cols |-> BusinessRow(CurName, loc.doc.transformed,
                                           loc.doc.business_status)]}]
        /\ pc' = "insert_audit"
     \/ /\ tx' = FailedTx
        /\ pc' = "rollback_business"
  /\ UNCHANGED <<cfg, db, conn, report, loc, raised>>

\* A mutant of RollbackBusiness: the handler of the failed insert does not
\* roll back.
RollbackBusinessSkipped ==
  /\ pc = "rollback_business"
  /\ tx' = tx
  /\ loc' = [loc EXCEPT !.doc.processing_status = StatusValues.error,
                        !.doc.insert_failed = TRUE]
  /\ pc' = "insert_audit"
  /\ UNCHANGED <<cfg, db, conn, raised, report, hist>>

\* pipeline.run lines 240-249: the failed insert is rolled back and the
\* document's processing status becomes ERROR.
RollbackBusiness ==
  /\ pc = "rollback_business"
  /\ \/ /\ tx' = EmptyTx
        /\ loc' = [loc EXCEPT !.doc.processing_status = StatusValues.error,
                              !.doc.insert_failed = TRUE]
        /\ pc' = "insert_audit"
        /\ UNCHANGED <<report, hist>>
     \/ /\ tx' = tx
        /\ Abort("DatabaseError", hist)
  /\ UNCHANGED <<cfg, db, conn, raised>>

\* pipeline.run lines 220, 254-262: the audit row of the current document
DocumentAuditRow ==
  [key |-> CurKey,
   cols |-> build_audit_row(
              IF ObjectIdAttribute \in DOMAIN loc.doc.document
                 /\ loc.doc.document[ObjectIdAttribute] # Null
              THEN py_str(loc.doc.document[ObjectIdAttribute]).v ELSE Null,
              Val("str", CurName), CurTarget, loc.object_status,
              loc.doc.missing_columns, loc.doc.processing_status)]

\* A mutant of InsertAudit: a failed audit insert leaves the transaction as
\* it was before the insert (a savepoint), and the document is committed
\* without its audit row.
InsertAuditSavepoint ==
  /\ pc = "insert_audit"
  /\ hist' = [hist EXCEPT !.audit_attempts = Inc(@, CurKey)]
  /\ \/ /\ Healthy
        /\ AuditTableName \in Catalog
        /\ tx' = [tx EXCEPT !.audit = @ \cup {DocumentAuditRow}]
        /\ pc' = "commit_audit"
     \/ /\ tx' = tx
        /\ pc' = "commit_audit"
  /\ UNCHANGED <<cfg, db, conn, report, loc, raised>>

\* pipeline.run lines 264-265: the audit row is inserted.
InsertAudit ==
  /\ pc = "insert_audit"
  /\ hist' = [hist EXCEPT !.audit_attempts = Inc(@, CurKey)]
  /\ \/ /\ Healthy
        /\ AuditTableName \in Catalog
        /\ tx' = [tx EXCEPT !.audit = @ \cup {DocumentAuditRow}]
        /\ pc' = "commit_audit"
     \/ /\ tx' = FailedTx
        /\ pc' = "rollback_audit"
  /\ UNCHANGED <<cfg, db, conn, report, loc, raised>>

\* A mutant of CommitAudit: the document is recorded without a commit, its
\* rows stay in the open transaction.
CommitAuditDeferred ==
  /\ pc = "commit_audit"
  /\ db' = db
  /\ tx' = tx
  /\ report' = record_document(report, CurName, loc.doc.errors # <<>>,
                               loc.doc.insert_failed)
  /\ NextDocument
  /\ UNCHANGED <<cfg, conn, hist, raised>>

\* pipeline.run lines 266-271: the commit of the document, then the report.
CommitAudit ==
  /\ pc = "commit_audit"
  /\ \/ /\ db' = Committed
        /\ tx' = EmptyTx
        /\ report' = record_document(report, CurName, loc.doc.errors # <<>>,
                                     loc.doc.insert_failed)
        /\ NextDocument
     \/ /\ db' = db
        /\ tx' = FailedTx
        /\ pc' = "rollback_audit"
        /\ UNCHANGED <<report, loc>>
  /\ UNCHANGED <<cfg, conn, hist, raised>>

\* A mutant of RollbackAudit: the handler re-raises after the rollback.
RollbackAuditRaise ==
  /\ pc = "rollback_audit"
  /\ tx' = EmptyTx
  /\ Abort("DatabaseError", hist)
  /\ UNCHANGED <<cfg, db, conn, raised>>

\* A mutant of RollbackAudit: the document is recorded with the outcome of its
\* business insert.
RollbackAuditKeepOutcome ==
  /\ pc = "rollback_audit"
  /\ \/ /\ tx' = EmptyTx
        /\ report' = record_document(report, CurName, loc.doc.errors # <<>>,
                                     loc.doc.insert_failed)
        /\ NextDocument
        /\ hist' = hist
     \/ /\ tx' = tx
        /\ Abort("DatabaseError", hist)
  /\ UNCHANGED <<cfg, db, conn, raised>>

\* pipeline.run lines 272-284: the failed audit insert is rolled back and the
\* document counted as an insert failure.
RollbackAudit ==
  /\ pc = "rollback_audit"
  /\ \/ /\ tx' = EmptyTx
        /\ report' = record_document(report, CurName, loc.doc.errors # <<>>, TRUE)
        /\ NextDocument
        /\ hist' = hist
     \/ /\ tx' = tx
        /\ Abort("DatabaseError", hist)
  /\ UNCHANGED <<cfg, db, conn, raised>>

(***************************************************************************)
(* PostgresLoader.__exit__ and the end of run() (lines 285-291).           *)
(***************************************************************************)
\* The exception that leaves run() when __exit__ itself fails: the locals
\* and the report are lost, and pipeline.run lines 285-288 wrap it.
ExitFails ==
  /\ pc' = "raised"
  /\ raised' = "LoadError"
  /\ loc' = [InitLocals EXCEPT !.exc = "DatabaseError"]
  /\ report' = EmptyReport

\* A mutant of Exit: the exception that escaped the with block leaves run()
\* as it is.
ExitUnwrapped ==
  /\ pc = "exit"
  /\ conn' = [connection |-> "closed", cursor |-> "closed"]
  /\ db' = IF loc.exc # "" THEN db ELSE Committed
  /\ tx' = EmptyTx
  /\ pc' = IF loc.exc # "" THEN "raised" ELSE "summary"
  /\ raised' = loc.exc
  /\ UNCHANGED <<loc, report, cfg, hist>>

\* __exit__ lines 35-43: the cursor is closed (36-37), then the transaction
\* is rolled back if an exception escaped the block and committed otherwise
\* (39-42), then the connection is closed (43).  There is no try/finally: a
\* failure of one statement skips the ones after it.  Whatever escaped the
\* block leaves run() as a LoadError (pipeline.run lines 285-288).
Exit ==
  /\ pc = "exit"
  /\ \/ /\ conn' = conn
        /\ db' = db
        /\ tx' = tx
        /\ ExitFails
     \/ /\ conn' = [conn EXCEPT !.cursor = "closed"]
        /\ db' = db
        /\ tx' = tx
        /\ ExitFails
     \/ /\ conn' = [connection |-> "closed", cursor |-> "closed"]
        /\ db' = IF loc.exc # "" THEN db ELSE Committed
        /\ tx' = EmptyTx
        /\ pc' = IF loc.exc # "" THEN "raised" ELSE "summary"
        /\ raised' = IF loc.exc # "" THEN "LoadError" ELSE raised
        /\ UNCHANGED <<loc, report>>
  /\ UNCHANGED <<cfg, hist>>

\* sum(d.values())
RECURSIVE SumOver(_, _)
SumOver(d, keys) ==
  IF keys = {} THEN 0
  ELSE LET k == CHOOSE x \in keys : TRUE IN d[k] + SumOver(d, keys \ {k})

Total(d) == SumOver(d, DOMAIN d)

\* The collection names of the model in the order sorted() gives them.
SortedCollections == <<"events", "orders", "users">>

\* log_summary lines 61-76: the lines of the per-collection metrics, one for
\* each key of processed_counts in sorted order.
per_collection_metrics(r) ==
  LET names == SelectSeq(SortedCollections, LAMBDA c : c \in DOMAIN r.processed_counts)
  IN [i \in 1..Len(names) |->
        [collection |-> names[i], processed |-> r.processed_counts[names[i]],
         errors |-> Get(r.error_counts, names[i]),
         failures |-> Get(r.insert_failures, names[i])]]

\* A mutant of kpi_summary: the total leaves the insert failures out.
kpi_summary_processed_only(r) ==
  [total_docs |-> Total(r.processed_counts),
   successful_docs |->
     IF Total(r.processed_counts) - Total(r.error_counts) > 0
     THEN Total(r.processed_counts) - Total(r.error_counts) ELSE 0,
   total_errors |-> Total(r.error_counts),
   missing_columns |-> r.missing_columns_count,
   total_failures |-> Total(r.insert_failures)]

\* log_summary lines 37-59: the totals.
kpi_summary(r) ==
  [total_docs |-> Total(r.processed_counts) + Total(r.insert_failures),
   successful_docs |->
     IF Total(r.processed_counts) - Total(r.error_counts) > 0
     THEN Total(r.processed_counts) - Total(r.error_counts) ELSE 0,
   total_errors |-> Total(r.error_counts),
   missing_columns |-> r.missing_columns_count,
   total_failures |-> Total(r.insert_failures)]

\* A mutant of Summarize: the summary is logged at the end of the with
\* block, before __exit__ runs.
SummarizeInsideBlock ==
  /\ pc = "exit" /\ loc.exc = "" /\ hist.summary = <<>>
  /\ pc' = pc
  /\ hist' = [hist EXCEPT !.summary =
                 Append(@, [kpi |-> kpi_summary(report),
                            per_collection |-> per_collection_metrics(report)])]
  /\ UNCHANGED <<cfg, db, tx, conn, report, loc, raised>>

\* pipeline.run lines 290-291: the summary is logged and the report returned.
Summarize ==
  /\ pc = "summary"
  /\ pc' = "done"
  /\ hist' = [hist EXCEPT !.summary =
                 Append(@, [kpi |-> kpi_summary(report),
                            per_collection |-> per_collection_metrics(report)])]
  /\ UNCHANGED <<cfg, db, tx, conn, report, loc, raised>>

Next ==
  \/ LoadConfig \/ LoadInput \/ Reconcile \/ EnsureDatabase \/ Connect
  \/ AuditCreateSchema \/ AuditEnsureTable \/ AuditCommit \/ AuditCheck
  \/ MissingInsert \/ MissingCommit \/ MissingRollback
  \/ EndCollections \/ Unmapped \/ ResolveTable
  \/ CreateSchema \/ CreateTable \/ CreateCommit
  \/ Transform \/ InsertBusiness \/ RollbackBusiness
  \/ InsertAudit \/ CommitAudit \/ RollbackAudit
  \/ Exit \/ Summarize

Spec == Init /\ [][Next]_vars

(***************************************************************************)
(* Properties of run().                                                    *)
(***************************************************************************)
\* Collection ci of the input has an entry in the mapping configuration.
Mapped(ci) == cfg.input[ci].name \in DOMAIN cfg.mapping

\* The documents of the mapped collections: <<collection index, document index>>.
MappedDocuments ==
  {<<ci, di>> : ci \in {c \in 1..Len(cfg.input) : Mapped(c)}, di \in 1..MaxDocs}
    \cap {k \in (1..Len(cfg.input)) \X (1..MaxDocs) : k[2] <= cfg.input[k[1]].n}

\* The run left the transactional region without a fatal error.
NotAborted == pc \in {"summary", "done"}

\* The position is inside the handling of one document.
InDocument ==
  pc \in {"insert_business", "rollback_business", "insert_audit",
          "commit_audit", "rollback_audit"}

\* C1: in a run that no fatal error aborts, exactly one insert into the
\* audit table was attempted for every document of every mapped input
\* collection, whatever happened to its business insert; and at no point of
\* any run has a document more than one audit attempt.
C1_OneAuditAttemptPerDocument ==
  /\ \A k \in DOMAIN hist.audit_attempts :
        k \in MappedDocuments /\ hist.audit_attempts[k] = 1
  /\ NotAborted => \A k \in MappedDocuments : Get(hist.audit_attempts, k) = 1

\* C1 witness: a finished run over a mapped collection of two documents, one
\* processed and one counted as an insert failure.
C1_Witness ==
  /\ pc = "done"
  /\ \E ci \in 1..Len(cfg.input) :
       /\ Mapped(ci)
       /\ cfg.input[ci].n = 2
       /\ Get(report.processed_counts, cfg.input[ci].name) = 1
       /\ Get(report.insert_failures, cfg.input[ci].name) = 1
       /\ Get(hist.audit_attempts, <<ci, 2>>) = 1

\* The statements whose failure the per-document handlers catch.
DocumentStatements == {"insert_business", "insert_audit", "commit_audit"}

\* C2: a failed business insert or audit insert never aborts the run.  The
\* failure of an insert or of the document's commit is never what makes the
\* run leave the with block; once the failed business insert is rolled back
\* the audit insert of the same document follows, and once the failed audit
\* insert is rolled back the next document of the collection follows, or the
\* next collection after the last document; a run that reaches the summary
\* has raised nothing.
C2_InsertFailureIsLocal ==
  /\ [](hist.cause \notin DocumentStatements)
  /\ [](pc \in {"summary", "done"} => raised = "")
  /\ [][/\ (pc \in DocumentStatements => pc' \notin {"exit", "raised"})
        /\ (pc = "rollback_business" /\ tx' = EmptyTx =>
              pc' = "insert_audit" /\ loc'.ci = loc.ci /\ loc'.di = loc.di)
        /\ (pc = "rollback_audit" /\ tx' = EmptyTx =>
              IF loc.di < cfg.input[loc.ci].n
              THEN pc' = "transform" /\ loc'.ci = loc.ci /\ loc'.di = loc.di + 1
              ELSE pc' = "collection" /\ loc'.ci = loc.ci + 1)]_vars

\* C2 witness: the second document of a collection is being transformed after
\* the first one's insert failed in an existing table and was rolled back.
C2_Witness ==
  /\ pc = "transform"
  /\ loc.di = 2
  /\ loc.table_exists
  /\ Get(report.insert_failures, CurName) = 1
  /\ db.audit = {}

TargetOf(ci) == cfg.mapping[cfg.input[ci].name]

\* The schema source (schema.sql) declares the table.
Declared(table_name) == normalize_table_name(table_name) \in cfg.schema_tables

\* The rows the open transaction and the committed database hold.
AuditRows == db.audit \cup tx.audit

BusinessRows == db.rows \cup tx.rows

\* The positions of the current collection after its table was resolved.
InCollection ==
  InDocument \/ pc \in {"create_schema", "create_table", "create_commit", "transform"}

\* C4: the object status of a mapped collection is ALREADY_EXISTS when its
\* table existed at resolution, else NEW when the schema source does not
\* declare the table, else MISSING; a NEW table is in the database before
\* the first document of the collection; and every audit row of the
\* collection carries the status chosen at resolution.
C4_ObjectStatusPriority ==
  InCollection =>
    LET existed == loc.table_exists /\ loc.ci \notin hist.ddl
        status == IF existed THEN ObjectStatusValues.already_exists
                  ELSE IF ~Declared(CurTarget) THEN ObjectStatusValues.new
                  ELSE ObjectStatusValues.missing
    IN /\ loc.object_status = status
       /\ report.object_statuses[CurTarget] = status
       /\ (status = ObjectStatusValues.new /\ (InDocument \/ pc = "transform")
             => split_table_name(CurTarget) \in db.tables)
       /\ \A a \in AuditRows : a.key[1] = loc.ci => a.cols.object_status = status

\* C5: for a mapped collection whose table the schema source declares and the
\* database does not hold, no CREATE SCHEMA or CREATE TABLE is issued, no
\* business insert is attempted, every audit row of its documents has
\* processing_status MISSING, and in a run that was not aborted every one of
\* its documents is counted as an insert failure and none as processed.
C5_DeclaredMissingTable ==
  \A ci \in hist.checked :
     (/\ Declared(TargetOf(ci))
      /\ (split_table_name(TargetOf(ci)) \notin db.tables \/ ci \in hist.ddl))
     => /\ ci \notin hist.ddl
        /\ \A k \in hist.biz_attempts : k[1] # ci
        /\ \A a \in AuditRows :
              a.key[1] = ci => a.cols.processing_status = StatusValues.missing
        /\ NotAborted =>
             /\ Get(report.insert_failures, cfg.input[ci].name) = cfg.input[ci].n
             /\ Get(report.processed_counts, cfg.input[ci].name) = 0

\* Nothing in the database work of the run or in the report's counters is
\* about collection ci.
Untouched(ci) ==
  /\ ci \notin hist.checked \cup hist.ddl
  /\ \A k \in hist.biz_attempts \cup DOMAIN hist.audit_attempts : k[1] # ci
  /\ \A r \in BusinessRows \cup AuditRows : r.key[1] # ci
  /\ cfg.input[ci].name \notin
       DOMAIN report.processed_counts \cup DOMAIN report.error_counts
         \cup DOMAIN report.insert_failures

\* C6: an input collection without a mapping is added to
\* unmapped_collections and causes no database statement: the step that
\* handles it changes neither the database, the open transaction nor the
\* statements issued, changes nothing of the report but
\* unmapped_collections, and moves on to the next collection; and no
\* existence check, DDL, insert or counter is ever about it.
C6_UnmappedCollectionIsSkipped ==
  /\ [](\A ci \in 1..Len(cfg.input) :
          ~Mapped(ci) =>
            /\ Untouched(ci)
            /\ (NotAborted => cfg.input[ci].name \in report.unmapped_collections))
  /\ [][(pc = "collection" /\ loc.ci \in 1..Len(cfg.input) /\ ~Mapped(loc.ci)) =>
          /\ db' = db /\ tx' = tx /\ hist' = hist
          /\ report' = [report EXCEPT !.unmapped_collections = @ \cup {CurName}]
          /\ pc' = "collection" /\ loc'.ci = loc.ci + 1]_vars

\* C6 witness: a finished run in which a collection without a mapping was
\* followed by a mapped collection whose document was processed.
C6_Witness ==
  /\ pc = "done"
  /\ \E ci \in 1..Len(cfg.input) :
       /\ ~Mapped(ci)
       /\ cfg.input[ci].n > 0
       /\ cfg.input[ci].name \in report.unmapped_collections
       /\ ci < Len(cfg.input)
       /\ Get(report.processed_counts, cfg.input[ci + 1].name) = 1

\* The mapping entries whose source attribute the document has no key for,
\* and their target columns in mapping order.
AbsentEntries(document) ==
  SelectSeq(Mappings, LAMBDA m : m.attr \notin DOMAIN document)

AbsentColumns(document) ==
  [i \in 1..Len(AbsentEntries(document)) |-> AbsentEntries(document)[i].column]

\* What transform_value makes of the document's value for a mapping entry.
Coerced(document, m) ==
  transform_value(document[m.attr], m.type, DateFormats,
                  DateOutputFormat, DatetimeOutputFormat)

\* The mapping entries whose value is present and does not coerce.
FailingEntries(document) ==
  SelectSeq(Mappings, LAMBDA m : m.attr \in DOMAIN document
                                   /\ Coerced(document, m).err # "")

\* No value of the document fails to coerce.
NoCoercionErrors(document) ==
  \A i \in 1..Len(Mappings) :
     Mappings[i].attr \in DOMAIN document =>
       /\ Coerced(document, Mappings[i]).exc = "none"
       /\ Coerced(document, Mappings[i]).err = ""

\* The commit of the current document's audit row succeeds in this step.
DocumentCommits == pc = "commit_audit" /\ pc' # "rollback_audit"

\* The business insert of the current document succeeded in the open transaction.
BusinessInserted == \E r \in tx.rows : r.key = CurKey

\* C7: a document without coercion errors that lacks N mapped attributes has
\* exactly the N target columns of the absent attributes in missing_columns,
\* in mapping order, and the business status SUCCESS; when its table exists
\* and its inserts and the commit succeed, the committed business row holds
\* null in those columns and the committed audit row has the same
\* missing_columns and processing_status SUCCESS.
C7_MissingAttributesStaySuccess ==
  /\ [](InDocument /\ NoCoercionErrors(loc.doc.document) =>
          /\ loc.doc.missing_columns = AbsentColumns(loc.doc.document)
          /\ loc.doc.errors = <<>>
          /\ loc.doc.business_status = StatusValues.success)
  /\ [][(DocumentCommits /\ BusinessInserted /\ NoCoercionErrors(loc.doc.document)) =>
          /\ \E r \in db'.rows :
                /\ r.key = CurKey /\ r.table = CurTarget
                /\ \A i \in 1..Len(AbsentColumns(loc.doc.document)) :
                      /\ AbsentColumns(loc.doc.document)[i] \in DOMAIN r.cols
                      /\ r.cols[AbsentColumns(loc.doc.document)[i]] = Null
                /\ r.cols[BusinessColumns.status] = Val("str", StatusValues.success)
          /\ \E a \in db'.audit :
                /\ a.key = CurKey
                /\ a.cols.missing_columns = AbsentColumns(loc.doc.document)
                /\ a.cols.processing_status = StatusValues.success
          /\ report'.processed_counts = Inc(report.processed_counts, CurName)
          /\ report'.error_counts = report.error_counts]_vars

\* C7 witness: a document that lacks the name attribute is committed: its
\* row holds null in full_name and its audit row is SUCCESS.
C7_Witness ==
  \E r \in db.rows : \E a \in db.audit :
     /\ a.key = r.key
     /\ r.cols["full_name"] = Null
     /\ a.cols.missing_columns = <<"full_name">>
     /\ a.cols.processing_status = StatusValues.success

\* C8: transform_document never rejects a document: no run leaves the with
\* block because transform_document raised; the row it returns has one entry
\* per mapped column; every attribute whose coercion fails has exactly one
\* error and a null column, every other present attribute the value its
\* coercion gives; and a document with errors has business status ERROR, is
\* inserted when its table exists, and is audited ERROR when inserted.
C8_TransformNeverRejects ==
  /\ hist.cause # "transform"
  /\ InDocument =>
       /\ DOMAIN loc.doc.transformed = {Mappings[i].column : i \in 1..Len(Mappings)}
       /\ loc.doc.errors =
            [i \in 1..Len(FailingEntries(loc.doc.document)) |->
               <<FailingEntries(loc.doc.document)[i].attr,
                 Coerced(loc.doc.document, FailingEntries(loc.doc.document)[i]).err>>]
       /\ \A i \in 1..Len(Mappings) :
             Mappings[i].attr \in DOMAIN loc.doc.document =>
               loc.doc.transformed[Mappings[i].column] =
                 Coerced(loc.doc.document, Mappings[i]).v
       /\ (loc.doc.errors # <<>> =>
             /\ loc.doc.business_status = StatusValues.error
             /\ (loc.table_exists /\ pc # "insert_business" =>
                   CurKey \in hist.biz_attempts)
             /\ (BusinessInserted => loc.doc.processing_status = StatusValues.error))

\* The mapping entries whose source attribute is present with a null value.
NullEntries(document) ==
  SelectSeq(Mappings, LAMBDA m : m.attr \in DOMAIN document /\ document[m.attr] = Null)

\* The elements of a sequence.
Range(seq) == {seq[i] : i \in 1..Len(seq)}

\* The columns the report holds as missing for a table.
ReportedMissing(r, object_name) ==
  IF object_name \in DOMAIN r.missing_columns_by_object
  THEN r.missing_columns_by_object[object_name] ELSE {}

\* C9 as the specification states it: the target column of an attribute that
\* is present with a null value is in the document's missing_columns and in
\* the report's missing columns of the table.
C9_NullCountsAsMissing ==
  InDocument =>
    \A i \in 1..Len(NullEntries(loc.doc.document)) :
       /\ NullEntries(loc.doc.document)[i].column \in Range(loc.doc.missing_columns)
       /\ NullEntries(loc.doc.document)[i].column \in ReportedMissing(report, CurTarget)

\* C9, amended: only an absent key is missing.  missing_columns holds the
\* columns of the attributes the document has no key for and no other; an
\* attribute present with a null value gives a null column, no error and no
\* entry in missing_columns; and the step that transforms a document adds
\* to the report's missing columns of the table exactly the columns of the
\* absent keys.
C9_OnlyAbsentKeysAreMissing ==
  /\ [](InDocument =>
          /\ loc.doc.missing_columns = AbsentColumns(loc.doc.document)
          /\ \A i \in 1..Len(NullEntries(loc.doc.document)) :
                /\ loc.doc.transformed[NullEntries(loc.doc.document)[i].column] = Null
                /\ NullEntries(loc.doc.document)[i].column
                     \notin Range(loc.doc.missing_columns)
                /\ \A e \in Range(loc.doc.errors) :
                      e[1] # NullEntries(loc.doc.document)[i].attr)
  /\ [][(pc = "transform" /\ pc' # "exit") =>
          /\ ReportedMissing(report', CurTarget) =
               ReportedMissing(report, CurTarget)
                 \cup Range(AbsentColumns(loc'.doc.document))
          /\ report'.missing_columns_count =
               report.missing_columns_count
                 + (IF AbsentColumns(loc'.doc.document) = <<>> THEN 0 ELSE 1)]_vars

\* C9 witness: a document whose name is present and null is being inserted
\* with nothing in missing_columns and nothing recorded in the report.
C9_Witness ==
  /\ pc = "commit_audit"
  /\ NullEntries(loc.doc.document) # <<>>
  /\ loc.doc.missing_columns = <<>>
  /\ \E a \in tx.audit : a.key = CurKey /\ a.cols.missing_columns = <<>>
  /\ report.missing_columns_count = 0
  /\ ReportedMissing(report, CurTarget) = {}

\* The business insert of the current document was attempted and failed.
BusinessInsertFailed ==
  /\ CurKey \in hist.biz_attempts
  /\ ~\E r \in BusinessRows : r.key = CurKey

\* C10: when the business insert of a document fails, the rollback leaves
\* an empty transaction and is followed by the audit insert of the same
\* document; the audit row has processing_status ERROR whether or not the
\* transformation had errors; and the step that commits it adds one to the
\* collection's insert_failures and leaves processed_counts and error_counts
\* as they were.
C10_FailedBusinessInsert ==
  /\ [](pc \in {"insert_audit", "commit_audit", "rollback_audit"}
          /\ BusinessInsertFailed =>
            /\ loc.doc.processing_status = StatusValues.error
            /\ tx.rows = {}
            /\ (pc = "insert_audit" => tx = EmptyTx)
            /\ (pc = "commit_audit" =>
                  \E a \in tx.audit :
                     a.key = CurKey /\ a.cols.processing_status = StatusValues.error))
  /\ [][(pc = "rollback_business" /\ tx' = EmptyTx) =>
          /\ pc' = "insert_audit" /\ loc'.ci = loc.ci /\ loc'.di = loc.di
          /\ db' = db]_vars
  /\ [][(DocumentCommits /\ BusinessInsertFailed) =>
          /\ \E a \in db'.audit :
                a.key = CurKey /\ a.cols.processing_status = StatusValues.error
          /\ ~\E r \in db'.rows : r.key = CurKey
          /\ report'.insert_failures = Inc(report.insert_failures, CurName)
          /\ report'.processed_counts = report.processed_counts
          /\ report'.error_counts = report.error_counts]_vars

\* C10 witness: a finished run over documents without transformation
\* errors in which a document whose business insert failed has a committed
\* audit row with processing_status ERROR and is counted as an insert failure.
C10_Witness ==
  /\ pc = "done"
  /\ cfg.pool = {DocClean}
  /\ \E a \in db.audit :
       /\ a.key[1] > 0
       /\ a.key \in hist.biz_attempts
       /\ a.cols.processing_status = StatusValues.error
       /\ ~\E r \in db.rows : r.key = a.key
       /\ Get(report.insert_failures, cfg.input[a.key[1]].name) = 1
       /\ Get(report.processed_counts, cfg.input[a.key[1]].name) = 0

\* C11: when the audit insert of a document or its commit fails, the
\* handler is entered with nothing of the document committed; its rollback
\* empties the open transaction, leaves the committed database as it was (a
\* business row inserted for the document is gone with the transaction),
\* adds one to the collection's insert_failures and leaves processed_counts
\* and error_counts as they were, whatever the business insert did.
C11_FailedAuditInsert ==
  /\ [](pc = "rollback_audit" =>
          /\ tx.failed
          /\ ~\E r \in db.rows \cup db.audit : r.key = CurKey)
  /\ [][(pc \in {"insert_audit", "commit_audit"} /\ tx'.failed) =>
          pc' = "rollback_audit" /\ db' = db /\ report' = report]_vars
  /\ [][(pc = "rollback_audit" /\ tx' = EmptyTx) =>
          /\ db' = db
          /\ report'.insert_failures = Inc(report.insert_failures, CurName)
          /\ report'.processed_counts = report.processed_counts
          /\ report'.error_counts = report.error_counts]_vars

\* C11 witness: the commit of a document failed after its business insert and
\* its audit insert had both succeeded, and the handler is about to roll back.
C11_Witness ==
  /\ pc = "rollback_audit"
  /\ tx.failed
  /\ BusinessInserted
  /\ \E a \in tx.audit : a.key = CurKey
  /\ ~loc.doc.insert_failed

\* The tables the schema source declares outside the audit schema that no
\* mapped collection of the input targets.
DeclaredButNotInInput ==
  {t \in cfg.schema_tables :
     /\ t[1] # Lower(AuditSchema)
     /\ ~\E ci \in 1..Len(cfg.input) :
           Mapped(ci) /\ normalize_table_name(TargetOf(ci)) = t}

\* The collections of the mapping that target the table.
Targeting(t) == {c \in DOMAIN cfg.mapping : normalize_table_name(cfg.mapping[c]) = t}

\* The loop over the input collections has been reached.
AtCollections ==
  pc = "collection" \/ InCollection \/ NotAborted \/ (pc = "exit" /\ loc.exc = "")

BooleanInputs ==
  {PyTrue, PyFalse, Null, Val("list", "[]"), Val("obj", "document"),
   Val("int", "0"), Val("int", "1"), Val("int", "10**400"),
   Val("float", "0.0"), Val("float", "1.5"), Val("float", "nan"), Val("float", "inf")}
  \cup {Val("str", w) : w \in TrueWords \cup FalseWords}
  \cup {Val("str", w) : w \in {"TRUE", "True", " Yes", "Yes", " 1 ", "False", "NO",
                               "", "maybe", "Maybe", "None", "1.5", "Al"}}

\* The declared types of a boolean column.
BooleanTypes == {"boolean", "bool", "Boolean"}

BooleanCalls ==
  {[fn |-> "normalize_boolean", value |-> v] : v \in BooleanInputs \ {Null}}
  \cup {[fn |-> "transform_value", value |-> v, type |-> t] :
          v \in BooleanInputs, t \in BooleanTypes}

\* The arguments of create_schema and create_table.
DdlCalls ==
  {[fn |-> "create_schema", schema_name |-> n] : n \in {"", "public", "sales", "Sales"}}
  \cup {[fn |-> "create_table", table_name |-> n, columns |-> c] :
          n \in {<<"users">>, <<"Sales", "Orders">>, <<"sales", "orders">>},
          c \in {<<>>, <<"id", "raw_json">>, <<"id", "full_name", "raw_json">>}}

\* The databases they run against: the schemas and the tables held.
DdlDatabases ==
  {[schemas |-> S, tables |-> T, columns |-> [t \in T |-> DeployedColumns],
    rows |-> {}, audit |-> {}] :
     S \in {{"public"}, {"public", "sales"}, {"public", "Sales"}},
     T \in {{}, {<<"public", "users">>}}}

\* The message of the OperationalError of the probe connection, "" when the
\* connection opens.
ProbeMessages ==
  {"", "database \"etl\" does not exist", "role \"etl\" does not exist",
   "connection refused"}

\* "does not exist" in message (postgres_loader line 131)
SaysDoesNotExist(message) ==
  message \in {"database \"etl\" does not exist", "role \"etl\" does not exist"}

\* ensure_database against a server: the setting database.create_if_missing
\* ("unset" when the key is absent), what the probe connection answers,
\* whether the administrative connection opens, whether pg_database lists
\* the database, and whether CREATE DATABASE is permitted.
ServerCalls ==
  {[fn |-> "ensure_database", create_if_missing |-> f, probe |-> m, admin |-> a,
    listed |-> l, create |-> c] :
     f \in {"unset", "true", "false"}, m \in ProbeMessages,
     a \in {"ok", "refused"}, l \in BOOLEAN, c \in {"ok", "denied"}}

\* The arguments of build_table_columns: mappings with distinct columns, with
\* one column twice, and with a declared type in capitals; raw JSON columns
\* that collide with a mapped or a business column or with none; type tables
\* with and without the date type; business columns with and without an
\* untyped one.
TableCalls ==
  {[fn |-> "build_table_columns", mappings |-> m, raw_json_column |-> r,
    type_mappings |-> t, business_columns |-> b,
    business_column_types |-> BusinessColumnTypes] :
     m \in {Mappings, SubSeq(Mappings, 1, 2),
            Append(Mappings, [attr |-> "alias", column |-> "id", type |-> "TEXT"])},
     r \in {RawJsonColumn, "full_name", BusinessColumns.status},
     t \in {TypeMappings, (" Integer " :> "BIGINT") @@ ("text" :> "TEXT")},
     b \in {BusinessColumnItems,
            Append(BusinessColumnItems, [logical |-> "batch", column |-> "batch_id"]),
            SubSeq(BusinessColumnItems, 1, 2)}}

\* Reconciliations: a mapping, the normalized tables of a schema source, the
\* collection names of an input, and the audit schema and audit table of the
\* configuration (validate_app_config asks for the two keys, not for the
\* table to lie in the schema, nor for a schema name that is not empty).
ReconcileCalls ==
  {[fn |-> "reconcile", mapping |-> m, schema_tables |-> S, input_names |-> N,
    audit_schema |-> a, audit_table |-> t] :
     m \in {MappingPlain, MappingShared, MappingAudit},
     S \in SchemaSources \cup {{<<"audit", "etl_audit">>, <<"public", "etl_audit">>,
                                <<"public", "users">>}},
     N \in SUBSET Collections,
     a \in {"audit", "Audit", ""},
     t \in {<<"audit", "etl_audit">>, <<"ETL_Audit">>}}

\* db_config.get("create_if_missing", True)
create_if_missing == cfg.create_if_missing # "false"

NoCalls == [outcomes |-> <<>>, connects |-> <<>>, statements |-> <<>>]

InitFunctions ==
  /\ pc = "call"
  /\ \/ /\ cfg \in BooleanCalls \cup ServerCalls \cup TableCalls \cup ReconcileCalls
        /\ db = [schemas |-> {}, tables |-> {}, columns |-> EmptyDict,
                 rows |-> {}, audit |-> {}]
        /\ tx = EmptyTx
     \/ /\ cfg \in DdlCalls
        /\ db \in DdlDatabases
        /\ tx \in {EmptyTx, [EmptyTx EXCEPT !.failed = TRUE]}
  /\ conn = [connection |-> "none", cursor |-> "none"]
  /\ report = EmptyReport
  /\ loc = [result |-> Null]
  /\ hist = NoCalls
  /\ raised = ""

\* The function returns r, or its exception leaves it.
Returns(r) ==
  /\ pc' = IF r.exc = "none" THEN "returned" ELSE "raised"
  /\ raised' = IF r.exc = "none" THEN raised ELSE r.exc
  /\ loc' = [result |-> r]

\* normalize_boolean(value)
CallNormalizeBoolean ==
  /\ pc = "call"
  /\ cfg.fn = "normalize_boolean"
  /\ Returns(normalize_boolean(cfg.value))
  /\ UNCHANGED <<cfg, db, tx, conn, report, hist>>

\* transform_value(value, target_type, ...)
CallTransformValue ==
  /\ pc = "call"
  /\ cfg.fn = "transform_value"
  /\ Returns(transform_value(cfg.value, cfg.type, DateFormats, DateOutputFormat,
                             DatetimeOutputFormat))
  /\ UNCHANGED <<cfg, db, tx, conn, report, hist>>

\* build_table_columns(mappings, raw_json_column, type_mappings, ...)
CallBuildTableColumns ==
  /\ pc = "call"
  /\ cfg.fn = "build_table_columns"
  /\ Returns(build_table_columns(cfg.mappings, cfg.raw_json_column, cfg.type_mappings,
                                 cfg.business_columns, cfg.business_column_types))
  /\ UNCHANGED <<cfg, db, tx, conn, report, hist>>

\* pipeline.run lines 43-89 on its own: the two sets the report is given.
CallReconcile ==
  /\ pc = "call"
  /\ cfg.fn = "reconcile"
  /\ Returns(Ok([missing_collections |->
                    missing_collections(cfg.mapping, cfg.input_names),
                 missing_tables_input |->
                    {table_lookup(cfg.mapping, t) :
                       t \in missing_input_tables(cfg.mapping, cfg.schema_tables,
                                                  cfg.input_names, cfg.audit_schema,
                                                  cfg.audit_table)}]))
  /\ UNCHANGED <<cfg, db, tx, conn, report, hist>>

\* The catalog a statement of the transaction t sees.
CatalogOf(t) ==
  [schemas |-> db.schemas \cup t.schemas, tables |-> db.tables \cup t.tables,
   columns |-> t.columns @@ db.columns]

\* A loader method is called, and called again with the same arguments: each
\* call's exception and the catalog after it are kept.
CallTwice(r) ==
  /\ pc \in {"call", "again"}
  /\ tx' = r.tx
  /\ hist' = [hist EXCEPT !.outcomes = Append(@, [exc |-> r.exc, catalog |-> CatalogOf(r.tx)])]
  /\ pc' = IF pc = "call" THEN "again" ELSE "returned"
  /\ UNCHANGED <<cfg, db, conn, report, loc, raised>>

\* loader.create_schema(schema_name)
CallCreateSchema ==
  /\ cfg.fn = "create_schema"
  /\ CallTwice(create_schema(db, tx, cfg.schema_name))

\* loader.create_table(table_name, columns)
CallCreateTable ==
  /\ cfg.fn = "create_table"
  /\ CallTwice(create_table(db, tx, cfg.table_name, cfg.columns))

\* ensure_database leaves with LoadError.
EnsureFails ==
  /\ pc' = "raised"
  /\ raised' = "LoadError"

\* ensure_database lines 111-124: without create_if_missing the function
\* returns at once; otherwise the connection parameters are built.
EnsureEnter ==
  /\ pc = "call"
  /\ cfg.fn = "ensure_database"
  /\ pc' = IF create_if_missing THEN "probe" ELSE "returned"
  /\ UNCHANGED <<cfg, db, tx, conn, report, loc, hist, raised>>

\* ensure_database lines 126-136: the probe connection to the database.
EnsureProbe ==
  /\ pc = "probe"
  /\ hist' = [hist EXCEPT !.connects = Append(@, "database")]
  /\ IF cfg.probe = ""
     THEN pc' = "returned" /\ raised' = raised
     ELSE IF ~SaysDoesNotExist(cfg.probe) THEN EnsureFails
     ELSE IF ~create_if_missing THEN EnsureFails
     ELSE pc' = "admin" /\ raised' = raised
  /\ UNCHANGED <<cfg, db, tx, conn, report, loc>>

\* ensure_database lines 138-151: the connection to the administrative
\* database.
EnsureAdmin ==
  /\ pc = "admin"
  /\ hist' = [hist EXCEPT !.connects = Append(@, "admin")]
  /\ IF cfg.admin = "ok"
     THEN pc' = "lookup" /\ raised' = raised
     ELSE EnsureFails
  /\ UNCHANGED <<cfg, db, tx, conn, report, loc>>

\* ensure_database lines 152-168: the lookup in pg_database and, for a
\* database it does not list, CREATE DATABASE; the connection is closed.
EnsureCreate ==
  /\ pc = "lookup"
  /\ hist' = [hist EXCEPT !.statements =
                 IF cfg.listed THEN <<"SELECT">> ELSE <<"SELECT", "CREATE DATABASE">>]
  /\ IF cfg.listed \/ cfg.create = "ok"
     THEN pc' = "returned" /\ raised' = raised
     ELSE EnsureFails
  /\ UNCHANGED <<cfg, db, tx, conn, report, loc>>

NextFunctions ==
  \/ CallNormalizeBoolean \/ CallTransformValue \/ CallBuildTableColumns
  \/ CallReconcile
  \/ CallCreateSchema \/ CallCreateTable
  \/ EnsureEnter \/ EnsureProbe \/ EnsureAdmin \/ EnsureCreate

SpecFunctions == InitFunctions /\ [][NextFunctions]_vars

(***************************************************************************)
(* C13                                                                     *)
(***************************************************************************)
\* A ConfigError is in flight: it escaped the with block, or it left run().
ConfigErrorRaised == loc.exc = "ConfigError" \/ raised = "ConfigError"

\* C13: every configuration error, the duplicate column name and the business
\* column without a type found by build_table_columns included, is raised
\* while no connection was opened, and it leaves run() as a ConfigError and
\* never as another exception.
C13_ConfigErrorBeforeConnection ==
  /\ ConfigErrorRaised => conn.connection = "none"
  /\ (pc = "raised" /\ hist.cause = "create_table" /\ TableColumns.exc = "ConfigError")
       => raised = "ConfigError"

(***************************************************************************)
(* C14                                                                     *)
(***************************************************************************)
\* The input file holds JSON of the wrong structure: the top level is not an
\* object, a collection is not a list, or a document is not an object.
StructurallyInvalid ==
  /\ cfg.file.file = "json"
  /\ \/ cfg.file.top # "dict"
     \/ ~(cfg.file.collections \subseteq {"list"})
     \/ ~(cfg.file.documents \subseteq {"dict"})

\* C14: a structurally invalid input batch never gets run() past
\* load_input_json: run() ends with InputError (unless the configuration was
\* rejected first), ensure_database is not reached, no connection is opened,
\* and no step changes the database or opens a transaction.
C14_InvalidInputRejected ==
  /\ [](StructurallyInvalid =>
         /\ pc \in {"start", "load_input", "raised"}
         /\ pc = "raised" => raised \in {"ConfigError", "InputError"}
         /\ (pc = "raised" /\ raised = "ConfigError") => hist.cause = ""
         /\ conn = [connection |-> "none", cursor |-> "none"]
         /\ tx = EmptyTx)
  /\ [][StructurallyInvalid => (db' = db /\ tx' = tx /\ conn' = conn)]_vars
  /\ [][(StructurallyInvalid /\ pc = "load_input") => raised' = "InputError"]_vars

\* A batch with a document that is not an object was rejected.
C14_Witness ==
  /\ StructurallyInvalid
  /\ "int" \in cfg.file.documents
  /\ pc = "raised"
  /\ raised = "InputError"
  /\ TotalDocs(cfg.input) > 0

(***************************************************************************)
(* C15                                                                     *)
(***************************************************************************)
\* Positions of the with block whose statement has no handler around it.
Unhandled ==
  {"audit_schema", "audit_tables", "audit_commit", "audit_check", "collection",
   "create_schema", "create_table", "create_commit"}

\* The rollbacks of the handlers in the with block.
Rollbacks == {"missing_rollback", "rollback_business", "rollback_audit"}

\* The statement of this step fails where nothing handles the failure: an
\* existence check, a DDL statement or a commit, or the rollback of a handler.
Escaping ==
  \/ pc \in Unhandled /\ tx'.failed
  \/ pc \in Rollbacks /\ tx' # EmptyTx

\* The document work done so far: business inserts, audit inserts, reports.
DocumentWork == <<hist.biz_attempts, hist.audit_attempts, hist.missing_attempts, db>>

\* C15: a failure of ensure_database or of the connection, and every
\* exception that escapes the with block (a failed existence check, DDL
\* statement, commit or rollback, the missing audit table), leaves run() as a
\* LoadError; from the moment the exception escapes no document is
\* transformed, inserted or audited, nothing is committed, and the summary is
\* not reached.
C15_SingleLoadError ==
  /\ [](loc.exc # "" => pc \in {"exit", "raised"})
  /\ []((pc = "raised" /\ hist.cause # "") => raised = "LoadError")
  /\ [][(pc \in {"ensure_database", "connect", "exit"} /\ pc' = "raised")
          => raised' = "LoadError"]_vars
  /\ [][Escaping => (pc' = "exit" /\ loc'.exc # "")]_vars
  /\ [][(pc = "audit_check" /\ ~tx'.failed /\ ~table_exists(AuditTableName))
          => (pc' = "exit" /\ loc'.exc = "LoadError")]_vars
  /\ [][(loc.exc # "" \/ pc = "raised")
          => (DocumentWork' = DocumentWork /\ pc' = "raised")]_vars

\* A failed rollback of a business insert left run() as a LoadError with a
\* document of the batch neither inserted nor audited.
C15_Witness ==
  /\ pc = "raised"
  /\ raised = "LoadError"
  /\ hist.cause = "rollback_business"
  /\ TotalDocs(cfg.input) = 2
  /\ DOMAIN hist.audit_attempts = {}
  /\ db.rows = {}

(***************************************************************************)
(* C16                                                                     *)
(***************************************************************************)
\* The with block was entered and has been left.
ScopeLeft == pc \in {"raised", "summary", "done"} /\ conn.cursor # "none"

\* C16: once the PostgresLoader scope is left, normally or with an
\* exception, the cursor is released and the connection is closed, on every
\* path.
C16_ConnectionAlwaysClosed ==
  ScopeLeft => conn = [connection |-> "closed", cursor |-> "closed"]

(***************************************************************************)
(* C17                                                                     *)
(***************************************************************************)
\* create_schema or create_table was called twice with the same arguments.
CalledTwice == cfg.fn \in {"create_schema", "create_table"} /\ pc = "returned"

\* The arguments are ones the method accepts, the transaction is healthy and
\* the schema of the table exists.
DdlCanSucceed ==
  /\ ~tx.failed
  /\ cfg.fn = "create_schema" => cfg.schema_name # ""
  /\ cfg.fn = "create_table" =>
       /\ cfg.columns # <<>>
       /\ split_table_name(cfg.table_name)[1] \in db.schemas

\* C17: create_schema and create_table called twice with the same arguments:
\* the second call ends as the first did (no error when the first raised
\* none) and leaves the schemas, the tables and the table definitions as the
\* first call left them; with valid arguments neither call raises.
C17_DdlIdempotent ==
  CalledTwice =>
    /\ hist.outcomes[2].exc = hist.outcomes[1].exc
    /\ hist.outcomes[2].catalog = hist.outcomes[1].catalog
    /\ DdlCanSucceed => hist.outcomes[1].exc = "none" /\ hist.outcomes[2].exc = "none"
    /\ hist.outcomes[1].exc = "none" =>
         /\ cfg.fn = "create_schema" => cfg.schema_name \in hist.outcomes[2].catalog.schemas
         /\ cfg.fn = "create_table" =>
              split_table_name(cfg.table_name) \in hist.outcomes[2].catalog.tables

\* create_table created a table on its first call and was called again.
C17_Witness ==
  /\ CalledTwice
  /\ cfg.fn = "create_table"
  /\ hist.outcomes[1].exc = "none"
  /\ split_table_name(cfg.table_name) \notin db.tables
  /\ hist.outcomes[2].catalog.columns[split_table_name(cfg.table_name)] = cfg.columns

(***************************************************************************)
(* C18                                                                     *)
(***************************************************************************)
\* ensure_database has returned or raised.
EnsureDatabaseLeft == cfg.fn = "ensure_database" /\ pc \in {"returned", "raised"}

\* The server has no database of the configured name.
DatabaseMissing == cfg.probe = "database \"etl\" does not exist"

\* C18: ensure_database raises LoadError, with no connection attempt after
\* the probe, when the database is missing and create_if_missing is disabled,
\* and when the probe fails for another reason; it connects to the
\* administrative database and issues CREATE DATABASE only for a missing
\* database with create_if_missing enabled.
C18_EnsureDatabaseFailsFast ==
  EnsureDatabaseLeft =>
    /\ (DatabaseMissing /\ ~create_if_missing) =>
         (raised = "LoadError" /\ "admin" \notin Range(hist.connects))
    /\ (hist.connects # <<>> /\ cfg.probe # "" /\ ~DatabaseMissing) =>
         (raised = "LoadError" /\ hist.connects = <<"database">>)
    /\ "admin" \in Range(hist.connects) => (DatabaseMissing /\ create_if_missing)
    /\ "CREATE DATABASE" \in Range(hist.statements) =>
         (DatabaseMissing /\ create_if_missing)

(***************************************************************************)
(* C19                                                                     *)
(***************************************************************************)
\* The collections a document was recorded for, processed or failed.
RecordedCollections == DOMAIN report.processed_counts \cup DOMAIN report.insert_failures

\* The collections the per-collection metrics of the summary list.
ListedCollections ==
  {hist.summary[1].per_collection[i].collection :
     i \in 1..Len(hist.summary[1].per_collection)}

\* C19: the per-collection metrics of the summary have a line for every
\* collection a document was recorded for, also when every document of the
\* collection was counted as an insert failure, and the line carries the
\* collection's counts.
C19_BreakdownListsEveryCollection ==
  pc = "done" =>
    /\ RecordedCollections \subseteq ListedCollections
    /\ \A i \in 1..Len(hist.summary[1].per_collection) :
         LET line == hist.summary[1].per_collection[i]
         IN /\ line.processed = Get(report.processed_counts, line.collection)
            /\ line.failures = Get(report.insert_failures, line.collection)

(***************************************************************************)
(* C20                                                                     *)
(***************************************************************************)
\* The strings of BooleanInputs that read as true and as false once trimmed
\* and lower-cased.
ReadsTrue == {"true", "t", "yes", "y", "1", "TRUE", "True", " Yes", "Yes", " 1 "}

ReadsFalse == {"false", "f", "no", "n", "0", "False", "NO"}

\* The boolean normalize_boolean is to return for the value, Null if it is to
\* fail.
ExpectedBoolean(value) ==
  CASE value.k = "bool" -> value
    [] value.k \in {"int", "float"} ->
         IF value \in {Val("int", "0"), Val("float", "0.0")} THEN PyFalse ELSE PyTrue
    [] value.k = "str" /\ value.s \in ReadsTrue -> PyTrue
    [] value.k = "str" /\ value.s \in ReadsFalse -> PyFalse
    [] OTHER -> Null

\* C20: normalize_boolean returns a native boolean unchanged, the truthiness
\* of a native number, and true or false for a string that is in one of the
\* two word lists once trimmed and lower-cased; it raises ValueError for
\* every other string (the empty string and "maybe" among them) and for every
\* other kind of value.  In transform_value the failure becomes an error
\* message with a null value, and no exception leaves transform_value.
C20_NormalizeBoolean ==
  /\ (cfg.fn = "normalize_boolean" /\ pc \in {"returned", "raised"}) =>
       IF ExpectedBoolean(cfg.value) = Null
       THEN pc = "raised" /\ raised = "ValueError"
       ELSE pc = "returned" /\ loc.result.v = ExpectedBoolean(cfg.value)
  /\ (cfg.fn = "transform_value" /\ pc \in {"returned", "raised"} /\ cfg.value # Null) =>
       /\ pc = "returned"
       /\ IF ExpectedBoolean(cfg.value) = Null
          THEN loc.result.v = Null /\ loc.result.err # ""
          ELSE loc.result.v = ExpectedBoolean(cfg.value) /\ loc.result.err = ""

\* "maybe" for a boolean column came back from transform_value as an error
\* with a null value.
C20_Witness ==
  /\ cfg.fn = "transform_value"
  /\ cfg.value = Val("str", "maybe")
  /\ pc = "returned"
  /\ loc.result.v = Null
  /\ loc.result.err # ""

(***************************************************************************)
(* C21                                                                     *)
(***************************************************************************)
\* The column names build_table_columns is asked for, in order.
RequestedNames ==
  [i \in 1..Len(cfg.mappings) |-> cfg.mappings[i].column] \o <<cfg.raw_json_column>>
    \o [i \in 1..Len(cfg.business_columns) |-> cfg.business_columns[i].column]

\* The keys of the type table whose normal form is that of the declared type.
ResolvingKeys(type) ==
  {k \in DOMAIN cfg.type_mappings : Lower(Strip(k)) = Lower(Strip(type))}

\* The call cannot be answered: a declared type has no SQL type, a business
\* column has no type, or a name is asked for twice.
Unbuildable ==
  \/ \E i \in 1..Len(cfg.mappings) : ResolvingKeys(cfg.mappings[i].type) = {}
  \/ \E i \in 1..Len(cfg.business_columns) :
       cfg.business_columns[i].logical \notin DOMAIN cfg.business_column_types
  \/ DuplicateColumn(RequestedNames)

\* C21: build_table_columns returns the mapped columns, nullable and typed
\* through the normalized type table, then the raw JSON column NOT NULL, then
\* the business columns NOT NULL with their types, under pairwise distinct
\* names; it raises ConfigError exactly when a declared type is unresolved, a
\* business column has no type, or two of the names are equal.
C21_BuildTableColumns ==
  (cfg.fn = "build_table_columns" /\ pc \in {"returned", "raised"}) =>
    IF Unbuildable
    THEN pc = "raised" /\ raised = "ConfigError"
    ELSE LET columns == loc.result.v
             n == Len(cfg.mappings)
         IN /\ pc = "returned"
            /\ [i \in 1..Len(columns) |-> columns[i].name] = RequestedNames
            /\ ~DuplicateColumn([i \in 1..Len(columns) |-> columns[i].name])
            /\ \A i \in 1..n :
                 /\ ~columns[i].not_null
                 /\ \E k \in ResolvingKeys(cfg.mappings[i].type) :
                      columns[i].type = cfg.type_mappings[k]
            /\ columns[n + 1] = [name |-> cfg.raw_json_column, type |-> "JSONB",
                                 not_null |-> TRUE]
            /\ \A i \in 1..Len(cfg.business_columns) :
                 /\ columns[n + 1 + i].not_null
                 /\ columns[n + 1 + i].type =
                      cfg.business_column_types[cfg.business_columns[i].logical]

\* The seven columns of the configured mapping were returned, the first of
\* them nullable with the SQL type of " Integer ".
C21_Witness ==
  /\ cfg.fn = "build_table_columns"
  /\ cfg.mappings = Mappings
  /\ pc = "returned"
  /\ Len(loc.result.v) = 7
  /\ loc.result.v[1] = [name |-> "id", type |-> "BIGINT", not_null |-> FALSE]
(***************************************************************************)
(* C22                                                                     *)
(***************************************************************************)
\* Two table names are the same table: equal after defaulting an unqualified
\* name to schema public and lower-casing schema and table.
SameTable(a, b) ==
  LET qa == IF Len(a) = 1 THEN <<"public", a[1]>> ELSE a
      qb == IF Len(b) = 1 THEN <<"public", b[1]>> ELSE b
  IN Lower(qa[1]) = Lower(qb[1]) /\ Lower(qa[2]) = Lower(qb[2])

\* The table is the target of a mapped collection of the input.
TargetOfInput(t) ==
  \E c \in cfg.input_names \cap DOMAIN cfg.mapping : SameTable(cfg.mapping[c], t)

\* The table lies in the configured audit schema.
InAuditSchema(t) == cfg.audit_schema # "" /\ Lower(t[1]) = Lower(cfg.audit_schema)

\* The reconciliation returned, and its two sets are those of the statement:
\* every schema-declared table outside S that no mapped input collection
\* targets is reported under one of its names, and nothing else is.
ReconciledMinus(S) ==
  (cfg.fn = "reconcile" /\ pc = "returned") =>
    /\ loc.result.v.missing_collections =
         {c \in DOMAIN cfg.mapping : c \notin cfg.input_names}
    /\ \A t \in cfg.schema_tables :
         (t \notin S /\ ~TargetOfInput(t)) <=>
            \E m \in loc.result.v.missing_tables_input : SameTable(m, t)
    /\ \A m \in loc.result.v.missing_tables_input :
         \E t \in cfg.schema_tables : SameTable(m, t)

\* C22 as stated: missing_collections is the mapped collections absent from
\* the input, and missing_tables_input is the schema-declared tables, minus
\* the tables of the audit schema, that are not the target of a mapped input
\* collection, names compared after normalization.
C22_AsStated ==
  ReconciledMinus({t \in cfg.schema_tables : InAuditSchema(t)})

\* C22: missing_collections is the mapped collections absent from the input,
\* and missing_tables_input is the schema-declared tables, minus the tables
\* of the configured audit schema and minus the audit table itself wherever
\* it lies, that are not the target of a mapped input collection, names
\* compared after lower-casing schema and table and defaulting an
\* unqualified name to schema public; the two sets depend on the mapping,
\* the schema source, the input names and the audit configuration only.
C22_Reconciliation ==
  ReconciledMinus({t \in cfg.schema_tables :
                     InAuditSchema(t) \/ SameTable(t, cfg.audit_table)})

\* A reconciliation returned that left the audit table of schema public out
\* of the missing tables and reported another table the input lacks, under
\* the name the mapping gives it.
C22_Witness ==
  /\ cfg.fn = "reconcile" /\ pc = "returned"
  /\ cfg.audit_schema = "Audit" /\ cfg.audit_table = <<"ETL_Audit">>
  /\ cfg.mapping = MappingPlain /\ cfg.input_names = {"orders", "events"}
  /\ <<"public", "etl_audit">> \in cfg.schema_tables
  /\ loc.result.v.missing_tables_input = {<<"users">>}
  /\ loc.result.v.missing_collections = {"users"}
(***************************************************************************)
(* C23                                                                     *)
(***************************************************************************)
\* run() is over: it returned the report, or an exception left it.
RunOver == pc \in {"done", "raised"}

\* Every collection of the input was handled: the mapped ones had their table
\* resolved, the others were recorded as unmapped.
AllCollectionsHandled ==
  /\ loc.ci > Len(cfg.input)
  /\ \A ci \in 1..Len(cfg.input) :
        IF Mapped(ci) THEN ci \in hist.checked
        ELSE cfg.input[ci].name \in report.unmapped_collections

\* At most one summary was logged, and only after the last collection of the
\* input was handled and the connection was released.
SummaryAfterRelease ==
  /\ Len(hist.summary) <= 1
  /\ hist.summary # <<>> =>
       /\ pc = "done"
       /\ AllCollectionsHandled
       /\ conn = [connection |-> "closed", cursor |-> "closed"]
       /\ tx = EmptyTx

\* C23 as stated: each run, however it ends, has logged one summary, after
\* the last collection and the release of the connection.
C23_EveryRunSummarized ==
  /\ SummaryAfterRelease
  /\ RunOver => Len(hist.summary) = 1

\* C23: a run that returns has logged its summary exactly once, after the
\* last input collection was handled and the connection was released; a run
\* that an exception leaves has logged none.
C23_SummaryOnceOnReturn ==
  /\ SummaryAfterRelease
  /\ pc = "done" => Len(hist.summary) = 1
  /\ pc = "raised" => hist.summary = <<>>

\* A run over two collections with documents returned with its summary.
C23_Witness ==
  /\ pc = "done"
  /\ Len(hist.summary) = 1
  /\ Len(cfg.input) = 2
  /\ TotalDocs(cfg.input) = MaxDocs
  /\ conn.connection = "closed"
(***************************************************************************)
(* C24                                                                     *)
(***************************************************************************)
\* The positions whose step issues a statement on the connection: existence
\* checks, DDL, inserts and commits.
StatementPositions ==
  {"audit_schema", "audit_tables", "audit_commit", "audit_check",
   "missing_insert", "missing_commit", "collection", "create_schema",
   "create_table", "create_commit", "insert_business", "insert_audit",
   "commit_audit"}

\* C24: no statement is issued in a transaction a statement has failed in.
\* While the transaction is failed the run is at the rollback of the handler
\* that caught a failed insert (or its commit), or an exception is leaving
\* the with block, or run() was left; a failure at a position without a
\* handler, or of a rollback, is what ends the run.
C24_NoStatementInFailedTransaction ==
  /\ pc \in StatementPositions \cup {"transform", "summary", "done"} => ~tx.failed
  /\ tx.failed =>
       \/ pc \in Rollbacks
       \/ pc \in {"exit", "raised"} /\ loc.exc # "" /\ hist.cause \in Unhandled \cup Rollbacks
  /\ pc \in Rollbacks => tx.failed

\* The business insert of a document failed, was rolled back, and the audit
\* insert of the document is issued in a transaction without a failure.
C24_Witness ==
  /\ pc = "insert_audit"
  /\ CurKey \in hist.biz_attempts
  /\ loc.doc.insert_failed
  /\ ~tx.failed /\ tx = EmptyTx
(***************************************************************************)
(* C25                                                                     *)
(***************************************************************************)
\* The positions whose step is a commit; the open transaction is what the
\* commit covers.  (__exit__ commits too, at "exit" without an exception.)
CommitPositions == {"audit_commit", "missing_commit", "create_commit", "commit_audit"}

AtCommit == pc \in CommitPositions \/ (pc = "exit" /\ loc.exc = "")

\* The schemas and tables the DDL statements of the open transaction created.
DdlObjects == Cardinality(tx.schemas) + Cardinality(tx.tables)

\* The documents the rows of the open transaction belong to.
DocumentsInTx == {r.key : r \in tx.rows \cup tx.audit}

\* C25 as stated: what a commit covers is the effect of a single DDL
\* statement and no row, or no DDL and the rows of a single document.
C25_AsStated ==
  AtCommit =>
    \/ DdlObjects <= 1 /\ DocumentsInTx = {}
    \/ DdlObjects = 0 /\ Cardinality(DocumentsInTx) <= 1

\* C25: every commit covers one unit of work and no commit covers several:
\* the provisioning of the audit schema with its tables (several DDL
\* statements, no row); the provisioning of one NEW target table, its schema
\* and the table (no row); the audit row of one missing table; or the rows
\* of a single document, its audit row with its business row when that was
\* inserted.  The commit of __exit__ covers nothing.
C25_CommitCoversOneUnit ==
  /\ pc = "audit_commit" =>
       /\ tx.schemas \subseteq {AuditSchema} /\ tx.tables \subseteq AuditTableSet
       /\ DocumentsInTx = {}
  /\ pc = "create_commit" =>
       /\ tx.schemas \subseteq {split_table_name(CurTarget)[1]}
       /\ tx.tables \subseteq {split_table_name(CurTarget)}
       /\ DocumentsInTx = {}
  /\ pc = "missing_commit" =>
       /\ DdlObjects = 0 /\ tx.rows = {}
       /\ tx.audit = {MissingTableAuditRow(Head(loc.queue))}
  /\ pc = "commit_audit" =>
       /\ DdlObjects = 0
       /\ tx.audit = {DocumentAuditRow}
       /\ Cardinality(tx.rows) <= 1
       /\ DocumentsInTx = {CurKey}
       /\ tx.rows = {} <=> loc.doc.insert_failed
  /\ (pc = "exit" /\ loc.exc = "") => (DdlObjects = 0 /\ DocumentsInTx = {})

\* The second document of a batch is about to be committed with its business
\* row and its audit row, after the first was committed.
C25_Witness ==
  /\ pc = "commit_audit"
  /\ loc.di = 2
  /\ Cardinality(tx.rows) = 1 /\ Cardinality(tx.audit) = 1
  /\ \E r \in db.rows : r.key = <<loc.ci, 1>>
(***************************************************************************)
(* C26                                                                     *)
(***************************************************************************)
\* The loop over the input collections is running.
InLoop == pc = "collection" \/ InCollection

\* Key a comes before key b in input order.
Before(a, b) == a[1] < b[1] \/ (a[1] = b[1] /\ a[2] < b[2])

\* The documents a business insert or an audit insert was attempted for.
Attempted == hist.biz_attempts \cup DOMAIN hist.audit_attempts

\* C26: the steps of a run are ordered.  Nothing of a collection is checked,
\* created, inserted or audited before the audit schema and its tables are
\* committed; the table of a collection is resolved, and created and
\* committed when its status is NEW, before its first document; a document
\* is transformed before its business insert, which is attempted (when the
\* table exists) before its audit insert; and collections and documents are
\* handled one at a time in input order: whatever was attempted is for the
\* current document or an earlier one, and every earlier document of a mapped
\* collection has had its audit attempt.
C26_StepOrder ==
  /\ (InLoop \/ hist.checked # {} \/ hist.ddl # {} \/ Attempted # {}) =>
       /\ AuditSchema \in db.schemas
       /\ AuditTableSet \subseteq db.tables
  /\ \A k \in Attempted : k[1] \in hist.checked
  /\ hist.ddl \subseteq hist.checked
  /\ (pc = "transform" \/ InDocument) =>
       /\ loc.ci \in hist.checked
       /\ loc.object_status = ObjectStatusValues.new =>
            /\ loc.ci \in hist.ddl
            /\ split_table_name(CurTarget) \in db.tables
       /\ loc.table_exists = (split_table_name(CurTarget) \in db.tables)
  /\ pc = "transform" => CurKey \notin Attempted /\ loc.doc.document = NoDoc
  /\ InDocument =>
       /\ loc.doc.document # NoDoc
       /\ (CurKey \in DOMAIN hist.audit_attempts /\ loc.table_exists) =>
            CurKey \in hist.biz_attempts
       /\ pc = "insert_business" => CurKey \notin Attempted
       /\ pc = "insert_audit" => CurKey \notin DOMAIN hist.audit_attempts
  /\ InLoop =>
       /\ \A ci \in hist.checked : ci <= loc.ci
       /\ \A ci \in 1..Len(cfg.input) : (ci < loc.ci /\ Mapped(ci)) => ci \in hist.checked
       /\ \A k \in Attempted : k = <<loc.ci, loc.di>> \/ Before(k, <<loc.ci, loc.di>>)
       /\ \A k \in MappedDocuments :
            Before(k, <<loc.ci, loc.di>>) => k \in DOMAIN hist.audit_attempts

\* The first document of the second collection is being transformed after
\* the table of the collection was created, and the document of the first
\* collection has had both inserts.
C26_Witness ==
  /\ pc = "transform"
  /\ loc.ci = 2 /\ loc.di = 1
  /\ loc.object_status = ObjectStatusValues.new
  /\ 2 \in hist.ddl
  /\ <<1, 1>> \in hist.biz_attempts \cap DOMAIN hist.audit_attempts
(***************************************************************************)
(* C27                                                                     *)
(***************************************************************************)
\* The documents whose business row, whose audit row, the database holds.
CommittedBusiness(d) == {r.key : r \in d.rows}

CommittedAudit(d) == {a.key : a \in {x \in d.audit : x.key[1] > 0}}

\* The documents of the mapped collections whose table the database holds.
DocumentsWithTable ==
  {k \in MappedDocuments : split_table_name(TargetOf(k[1])) \in db.tables}

\* C27 as stated: for a document of a mapped collection with an existing
\* table the business row is committed if and only if its audit row is.
C27_AsStated ==
  \A k \in DocumentsWithTable :
     k \in CommittedBusiness(db) <=> k \in CommittedAudit(db)

\* C27: a business row is committed only together with the audit row of its
\* document, in the same commit, so no business row is in the database
\* without its audit row; the rollback after a failed audit insert (or a
\* failed commit) discards the business row of the document with it; and a
\* commit of a document that succeeds commits the audit row, and with it the
\* business row when the business insert had succeeded.  The audit row alone
\* is committed for a document whose business insert failed.
C27_BusinessRowOnlyWithAuditRow ==
  /\ [](CommittedBusiness(db) \subseteq CommittedAudit(db))
  /\ [][CommittedBusiness(db') \ CommittedBusiness(db)
          \subseteq CommittedAudit(db') \ CommittedAudit(db)]_vars
  /\ [][(pc = "rollback_audit")
          => (db' = db /\ (pc' # "exit" => tx' = EmptyTx)
              /\ CurKey \notin CommittedBusiness(db))]_vars
  /\ [][(pc = "commit_audit" /\ pc' # "rollback_audit")
          => /\ CurKey \in CommittedAudit(db')
             /\ CurKey \in CommittedBusiness(db') <=> ~loc.doc.insert_failed]_vars
  /\ [](\A k \in CommittedAudit(db) \ CommittedBusiness(db) : k \in hist.biz_attempts
          \/ split_table_name(TargetOf(k[1])) \notin db.tables
          \/ k[1] \in hist.ddl)

\* The audit insert of a document failed after its business insert had
\* succeeded in an existing table; after the rollback neither row is there
\* and the run goes on.
C27_Witness ==
  /\ pc \in {"transform", "collection"}
  /\ \E k \in hist.biz_attempts :
       /\ k \in DOMAIN hist.audit_attempts
       /\ k \notin CommittedAudit(db) \cup CommittedBusiness(db)
       /\ Get(report.insert_failures, cfg.input[k[1]].name) = 1
       /\ Get(report.error_counts, cfg.input[k[1]].name) = 0
  /\ \E k \in CommittedBusiness(db) : k \in CommittedAudit(db)
(***************************************************************************)
(* C28                                                                     *)
(***************************************************************************)
\* The business rows committed for collection ci, and those of them whose
\* document had transformation errors.
RowsOf(ci) == {r \in db.rows : r.key[1] = ci}

ErrorRowsOf(ci) ==
  {r \in RowsOf(ci) : r.cols[BusinessColumns.status] = Val("str", StatusValues.error)}

\* C28: when run() returns, for every mapped input collection
\* processed_counts + insert_failures is the number of its documents,
\* error_counts <= processed_counts, processed_counts is the number of its
\* committed business rows, and error_counts counts only committed documents
\* (a document with transformation errors and an insert failure is in
\* insert_failures alone); unmapped collections are not counted; and in the
\* summary total documents = successful + with errors + insert failures,
\* and documents with missing columns <= total documents.
C28_ReportCounts ==
  pc = "done" =>
    /\ \A ci \in 1..Len(cfg.input) :
         LET c == cfg.input[ci].name
         IN IF Mapped(ci)
            THEN /\ Get(report.processed_counts, c) + Get(report.insert_failures, c)
                      = cfg.input[ci].n
                 /\ Get(report.error_counts, c) <= Get(report.processed_counts, c)
                 /\ Get(report.processed_counts, c) = Cardinality(RowsOf(ci))
                 /\ Get(report.error_counts, c) = Cardinality(ErrorRowsOf(ci))
            ELSE /\ Get(report.processed_counts, c) = 0
                 /\ Get(report.insert_failures, c) = 0
                 /\ Get(report.error_counts, c) = 0
    /\ LET kpi == hist.summary[1].kpi
       IN /\ kpi.total_docs =
               kpi.successful_docs + kpi.total_errors + kpi.total_failures
          /\ kpi.total_docs = TotalDocs(SelectSeq(cfg.input,
                                  LAMBDA b : b.name \in DOMAIN cfg.mapping))
          /\ kpi.missing_columns <= kpi.total_docs

\* A run returned after one document with transformation errors was
\* committed and another document was counted as an insert failure; both
\* have an audit row with processing status ERROR.
C28_Witness ==
  /\ pc = "done"
  /\ hist.summary[1].kpi.total_errors = 1
  /\ hist.summary[1].kpi.total_failures = 1
  /\ hist.summary[1].kpi.successful_docs = 0
  /\ \A k \in DOMAIN hist.audit_attempts :
       \E a \in db.audit : a.key = k /\ a.cols.processing_status = StatusValues.error
(***************************************************************************)
(* C29                                                                     *)
(***************************************************************************)
\* Collections ci and cj of the input, ci first, are mapped to one table, and
\* the run created it for ci: the database did not hold it and the schema
\* source did not declare it.
SharedNewTable(ci, cj) ==
  /\ ci < cj /\ Mapped(ci) /\ Mapped(cj)
  /\ SameTable(TargetOf(ci), TargetOf(cj))
  /\ ci \in hist.ddl
  /\ cj \in hist.checked

\* The audit rows of collection ci carry the object status.
AuditRowsCarry(ci, status) ==
  \A a \in AuditRows : a.key[1] = ci => a.cols.object_status = status

\* The table two collections share is created once, by the first of them;
\* the audit rows of the first carry NEW, those of the second ALREADY_EXISTS.
SharedCreatedOnce ==
  \A ci, cj \in 1..Len(cfg.input) :
     SharedNewTable(ci, cj) =>
       /\ cj \notin hist.ddl
       /\ split_table_name(TargetOf(ci)) \in db.tables
       /\ AuditRowsCarry(ci, ObjectStatusValues.new)
       /\ AuditRowsCarry(cj, ObjectStatusValues.already_exists)

\* C29: when two input collections map to one target table that is neither
\* in the database nor declared in the schema source, the table is created
\* once, by the first of them in input order; the audit rows of the first
\* carry NEW and those of the second ALREADY_EXISTS; and when the run
\* returns, the object status the report holds for the table is the last one
\* observed, ALREADY_EXISTS.
C29_SharedNewTable ==
  /\ SharedCreatedOnce
  /\ pc = "done" =>
       \A ci, cj \in 1..Len(cfg.input) :
          SharedNewTable(ci, cj) =>
            \A n \in DOMAIN report.object_statuses :
               SameTable(n, TargetOf(ci)) =>
                 report.object_statuses[n] = ObjectStatusValues.already_exists
(***************************************************************************)
(* C30                                                                     *)
(***************************************************************************)
\* The positions of the loop over the missing tables.
MissingLoop == {"missing_insert", "missing_commit", "missing_rollback"}

\* The report of the run is alive: no exception has left the with block.
ReportAlive == pc \in MissingLoop \/ InLoop \/ NotAborted \/ (pc = "exit" /\ loc.exc = "")

\* The missing tables whose audit insert was attempted and whose audit row is
\* not in the database nor in the open transaction.
MissingRowLost ==
  {i \in 1..Len(hist.missing_attempts) :
     ~\E a \in AuditRows : a.key[1] = 0 /\ a.cols = hist.missing_attempts[i].cols}

\* C30: a failed insert of the audit row of a missing table (or a failure of
\* its commit) goes to the rollback of the handler and is never what makes
\* the run leave the with block; the rollback discards the open transaction
\* only and is followed by the next missing table, or by the first
\* collection after the last one; the MISSING status of every table
\* attempted stays in the report; and when the collections are reached every
\* missing table has been attempted.
C30_MissingAuditFailureNotFatal ==
  /\ [](hist.cause \notin {"missing_insert", "missing_commit"})
  /\ [][(pc \in {"missing_insert", "missing_commit"} /\ tx'.failed)
          => (pc' = "missing_rollback" /\ db' = db /\ loc' = loc)]_vars
  /\ [][(pc = "missing_rollback" /\ tx' = EmptyTx)
          => /\ pc' = (IF Len(loc.queue) > 1 THEN "missing_insert" ELSE "collection")
             /\ loc'.queue = Tail(loc.queue)
             /\ db' = db /\ report' = report]_vars
  /\ [](ReportAlive =>
          \A i \in 1..Len(hist.missing_attempts) :
             /\ table_lookup(cfg.mapping, hist.missing_attempts[i].table)
                  \in DOMAIN report.object_statuses
             /\ report.object_statuses[
                  table_lookup(cfg.mapping, hist.missing_attempts[i].table)]
                  = ObjectStatusValues.missing
             /\ table_lookup(cfg.mapping, hist.missing_attempts[i].table)
                  \in report.missing_tables_input)
  /\ [](AtCollections =>
          Len(hist.missing_attempts) = Len(Sorted(DeclaredButNotInInput)))

\* The audit insert of the first of two missing tables failed and was rolled
\* back, the audit row of the second is committed, and the documents of a
\* collection are being handled.
C30_Witness ==
  /\ InDocument
  /\ Len(hist.missing_attempts) = 2
  /\ MissingRowLost = {1}
  /\ \E a \in db.audit : a.key[1] = 0 /\ a.cols = hist.missing_attempts[2].cols
====
